---- MODULE Spec2Model ----
(***************************************************************************)
(* Transcription pipeline of webtv.unfck.org: the transcripts table of     *)
(* src/lib/turso.ts, the request handlers that drive a transcript through  *)
(* its stages, and the advisory pipeline lock.  Every await of a handler   *)
(* is one step of the request that runs it; the store executes each SQL    *)
(* statement atomically.                                                   *)
(***************************************************************************)
EXTENDS Integers, Sequences, FiniteSets, TLC

\* ------------------------------------------------------------------ bounds
MaxTranscripts == 3      \* transcript ids the upstream service hands out
MaxRequests == 2         \* request slots served at the same time
MaxTicks == 2            \* clock readings after the first one
MaxStarts == 3           \* requests that arrive
MaxFaults == 1           \* injected failures: a store call that throws, a process that dies
TickMs == 1800000        \* wall-clock time between two clock readings
IsoWidth == 8            \* digits of a rendered timestamp
MaxParagraphs == 2       \* paragraphs in the body of a classification request
MaxSentences == 2        \* sentences of a transcript the tagger reads
MaxLiveStarts == 2       \* requests served in a behaviour checked for liveness
maxPolls == 3            \* polls of one panel loop (200 in transcription-panel.tsx)

\* --------------------------------------------------------------- constants
PIPELINE_LOCK_TIMEOUT_MS == 30 * 60 * 1000
PollIntervalMs == 3000    \* the sleep before every poll of the panel

TranscriptIds == 1..MaxTranscripts
ReqIds == 1..MaxRequests
NoId == 0

EntryIds == {"e1"}
NullTime == -1
SegStart == 0
SegEnd == 100
\* (start_time, end_time) of a request or row; <<NullTime, NullTime>> is the
\* whole-resource transcript
Ranges == {<<NullTime, NullTime>>, <<SegStart, SegEnd>>}
\* the key of a transcript: (entry id, start_time, end_time)
Keys == {<<e, range[1], range[2]>> : e \in EntryIds, range \in Ranges}

NULL_TEXT == <<>>        \* SQL NULL in a TEXT timestamp column
NULL_MSG == "NULL"       \* SQL NULL in error_message
NoError == ""            \* no exception caught

Statuses == {"transcribing", "transcribed", "identifying_speakers",
             "analyzing_topics", "completed", "error"}

VARIABLES transcripts, speaker_mappings, videos, upstream, clock, req, faults,
          staleTaken, started, lastSubmit, classifier, panel

vars == <<transcripts, speaker_mappings, videos, upstream, clock, req, faults,
          staleTaken, started, lastSubmit, classifier, panel>>

\* ------------------------------------------------------------- time & text
RECURSIVE Pow10(_)
Pow10(n) == IF n = 0 THEN 1 ELSE 10 * Pow10(n - 1)

\* Date.prototype.toISOString: a fixed-width, zero-padded rendering with the
\* most significant field first
toISOString(ms) == [i \in 1..IsoWidth |-> (ms \div Pow10(IsoWidth - i)) % 10]

\* SQLite's comparison of two TEXT values (BINARY collation: memcmp, a proper
\* prefix sorts first)
RECURSIVE TextLess(_, _)
TextLess(a, b) ==
  IF a = <<>> THEN b # <<>>
  ELSE IF b = <<>> THEN FALSE
  ELSE IF Head(a) # Head(b) THEN Head(a) < Head(b)
  ELSE TextLess(Tail(a), Tail(b))

\* wall clock at Init; late enough that now - timeout is not negative
EpochMs == PIPELINE_LOCK_TIMEOUT_MS

\* Date.now()
DateNow == EpochMs + clock * TickMs

\* --------------------------------------------------------------- the store
\* content: the number of raw paragraphs and of statements, the sentences of
\* the statements in document order, and whether the un80_topics dictionary is
\* embedded
EmptyContent ==
  [raw_paragraphs |-> 0, statements |-> 0, sentences |-> <<>>, un80_topics |-> FALSE]
BuiltContent ==
  [raw_paragraphs |-> 1, statements |-> 1, sentences |-> <<>>, un80_topics |-> FALSE]

Row(entryId, startTime, endTime, status, content, nowMs) ==
  [entry_id |-> entryId, start_time |-> startTime, end_time |-> endTime,
   status |-> status, content |-> content, pipeline_lock |-> NULL_TEXT,
   error_message |-> NULL_MSG, updated_at |-> toISOString(nowMs)]

Exists(ts, transcriptId) == transcriptId \in DOMAIN ts

\* getTranscript: the rows the query may return first.  ORDER BY updated_at
\* DESC LIMIT 1 leaves the choice among rows with equal updated_at open.
getTranscript(ts, entryId, startTime, endTime, completedOnly) ==
  LET match == {t \in DOMAIN ts :
                  /\ ts[t].entry_id = entryId
                  /\ ts[t].start_time = startTime
                  /\ ts[t].end_time = endTime
                  /\ (completedOnly => ts[t].status = "completed")}
  IN {t \in match : \A u \in match : ~TextLess(ts[t].updated_at, ts[u].updated_at)}

saveTranscript(ts, entryId, transcriptId, startTime, endTime, status, content, nowMs) ==
  IF Exists(ts, transcriptId)
  THEN [ts EXCEPT ![transcriptId] = [@ EXCEPT !.status = status,
                                               !.content = content,
                                               !.updated_at = toISOString(nowMs)]]
  ELSE ts @@ (transcriptId :> Row(entryId, startTime, endTime, status, content, nowMs))

\* updateTranscriptStatus with the content column reset by the same UPDATE
updateTranscriptStatus_ResetsContent(ts, transcriptId, status, errorMessage, nowMs) ==
  IF Exists(ts, transcriptId)
  THEN [ts EXCEPT ![transcriptId] = [@ EXCEPT !.status = status,
                                               !.error_message = errorMessage,
                                               !.content = EmptyContent,
                                               !.updated_at = toISOString(nowMs)]]
  ELSE ts

updateTranscriptStatus(ts, transcriptId, status, errorMessage, nowMs) ==
  IF Exists(ts, transcriptId)
  THEN [ts EXCEPT ![transcriptId] = [@ EXCEPT !.status = status,
                                               !.error_message = errorMessage,
                                               !.updated_at = toISOString(nowMs)]]
  ELSE ts

updateTranscriptContent(ts, transcriptId, content, nowMs) ==
  IF Exists(ts, transcriptId)
  THEN [ts EXCEPT ![transcriptId] = [@ EXCEPT !.content = content,
                                               !.updated_at = toISOString(nowMs)]]
  ELSE ts

\* tryAcquirePipelineLock with the cutoff compared by <= instead of <
tryAcquirePipelineLock_LockAtCutoff(ts, transcriptId, nowMs) ==
  LET cutoff == toISOString(nowMs - PIPELINE_LOCK_TIMEOUT_MS)
      hit == /\ Exists(ts, transcriptId)
             /\ \/ ts[transcriptId].pipeline_lock = NULL_TEXT
                \/ ~TextLess(cutoff, ts[transcriptId].pipeline_lock)
  IN [acquired |-> hit,
      rows |-> IF hit
               THEN [ts EXCEPT ![transcriptId] =
                       [@ EXCEPT !.pipeline_lock = toISOString(nowMs),
                                 !.updated_at = toISOString(nowMs)]]
               ELSE ts]

\* tryAcquirePipelineLock with updated_at written whether or not the lock
\* was taken
tryAcquirePipelineLock_TouchesBusyRow(ts, transcriptId, nowMs) ==
  LET cutoff == toISOString(nowMs - PIPELINE_LOCK_TIMEOUT_MS)
      hit == /\ Exists(ts, transcriptId)
             /\ \/ ts[transcriptId].pipeline_lock = NULL_TEXT
                \/ TextLess(ts[transcriptId].pipeline_lock, cutoff)
  IN [acquired |-> hit,
      rows |-> IF Exists(ts, transcriptId)
               THEN [ts EXCEPT ![transcriptId] =
                       [@ EXCEPT !.pipeline_lock = IF hit THEN toISOString(nowMs) ELSE @,
                                 !.updated_at = toISOString(nowMs)]]
               ELSE ts]

\* the UPDATE's WHERE clause: no lock, or a lock written before the cutoff
tryAcquirePipelineLock(ts, transcriptId, nowMs) ==
  LET cutoff == toISOString(nowMs - PIPELINE_LOCK_TIMEOUT_MS)
      hit == /\ Exists(ts, transcriptId)
             /\ \/ ts[transcriptId].pipeline_lock = NULL_TEXT
                \/ TextLess(ts[transcriptId].pipeline_lock, cutoff)
  IN [acquired |-> hit,
      rows |-> IF hit
               THEN [ts EXCEPT ![transcriptId] =
                       [@ EXCEPT !.pipeline_lock = toISOString(nowMs),
                                 !.updated_at = toISOString(nowMs)]]
               ELSE ts]

releasePipelineLock(ts, transcriptId, nowMs) ==
  IF Exists(ts, transcriptId)
  THEN [ts EXCEPT ![transcriptId] = [@ EXCEPT !.pipeline_lock = NULL_TEXT,
                                               !.updated_at = toISOString(nowMs)]]
  ELSE ts

deleteTranscriptsForEntry(ts, entryId) ==
  [t \in {u \in DOMAIN ts : ts[u].entry_id # entryId} |-> ts[t]]

\* ------------------------------------------------------------- requests
IdleReq ==
  [kind |-> "idle", pc |-> "idle", transcriptId |-> NoId, entryId |-> "e1",
   start_time |-> NullTime, end_time |-> NullTime, force |-> FALSE,
   checkOnly |-> FALSE, paragraphs |-> 0, content |-> EmptyContent,
   error |-> NoError,
   status |-> 0, body |-> NoId,
   mapping |-> 0,
   totalDuration |-> NullTime, currentTime |-> NullTime, isComplete |-> FALSE,
   existingSegments |-> {}, gaps |-> <<>>, needsFullRetranscription |-> FALSE,
   tasks |-> <<>>, assetId |-> "", op |-> "", now |-> 0,
   acquired |-> FALSE, holding |-> FALSE, lockedAt |-> 0, contended |-> FALSE,
   attributor |-> "none", wroteCompleted |-> FALSE, wroteError |-> FALSE]

\* the transcription panel of a page on which handleTranscribe has not run
IdlePanel ==
  [pc |-> "idle", transcriptId |-> NoId, pollCount |-> 0, slept |-> 0, slot |-> 0,
   loading |-> FALSE, statements |-> 0, error |-> NoError]

\* an arriving request is served in the lowest slot that is not busy
Free(r) ==
  /\ req[r].pc \in {"idle", "done", "crashed"}
  /\ \A o \in ReqIds : o < r => req[o].pc \notin {"idle", "done", "crashed"}
  /\ started < MaxStarts

\* transcript ids a caller can name: those the upstream service has issued
Issued == DOMAIN upstream

\* a handler that has returned or died: its arguments and locals are gone
Ended(rec, pc) ==
  [rec EXCEPT !.pc = pc, !.paragraphs = 0, !.content = EmptyContent,
              !.entryId = IdleReq.entryId, !.start_time = NullTime,
              !.end_time = NullTime, !.force = FALSE, !.checkOnly = FALSE,
              !.lockedAt = 0,
              !.totalDuration = NullTime, !.currentTime = NullTime,
              !.isComplete = FALSE, !.tasks = <<>>, !.assetId = "", !.now = 0,
              !.transcriptId = IF rec.kind = "trigger" THEN rec.transcriptId ELSE NoId]

\* a response: HTTP status and, where the body names one, the transcript id
Respond(r, rec, status, body) ==
  req' = [req EXCEPT ![r] = [Ended(rec, "done") EXCEPT !.status = status,
                                                       !.body = body]]

CanFault == faults < MaxFaults

Alive(r) == req[r].pc \notin {"idle", "done", "crashed"}

\* a request that acquired the pipeline lock and has not released it yet
InSection(r) == req[r].kind = "trigger" /\ Alive(r) /\ req[r].holding

\* an exception thrown inside the handler's inner try block
ThrowInner(r, rec, message) ==
  req' = [req EXCEPT ![r] = [rec EXCEPT !.pc = "t_catch", !.error = message]]

\* ThrowOuter without the outer catch: the exception leaves the handler and
\* no response is written
ThrowOuter_Uncaught(r, rec, message) ==
  req' = [req EXCEPT ![r] = [rec EXCEPT !.pc = "unhandled", !.error = message]]

\* an exception that reaches the handler's outer catch: a 500 response
ThrowOuter(r, rec, message) ==
  Respond(r, [rec EXCEPT !.error = message], 500, NoId)

\* ------------------------------------------- speaker attribution (lib)
\* identifySpeakers on success: the mapping is stored under the transcript id
identifySpeakers(sm, transcriptId, paragraphs) ==
  IF transcriptId = NoId THEN sm
  ELSE [t \in DOMAIN sm \cup {transcriptId} |->
          IF t = transcriptId THEN paragraphs ELSE sm[t]]

\* ------------------------------------------- attribution trigger (POST)
TriggerStart(r) ==
  /\ Free(r)
  /\ \E tid \in Issued \cup {NoId} :
       IF tid = NoId
       THEN Respond(r, [IdleReq EXCEPT !.kind = "trigger",
                                       !.error = "transcriptId required"], 400, NoId)
       ELSE req' = [req EXCEPT ![r] = [IdleReq EXCEPT !.kind = "trigger",
                                                       !.pc = "t_get",
                                                       !.transcriptId = tid]]
  /\ started' = started + 1
  /\ UNCHANGED lastSubmit
  /\ UNCHANGED <<transcripts, speaker_mappings, upstream, clock, videos, faults,
                 staleTaken, classifier, panel>>

TriggerGet(r) ==
  /\ UNCHANGED <<started, lastSubmit>>
  /\ req[r].pc = "t_get"
  /\ LET tid == req[r].transcriptId IN
     \/ /\ CanFault
        /\ faults' = faults + 1
        /\ ThrowOuter(r, req[r], "store")
     \/ /\ ~Exists(transcripts, tid)
        /\ Respond(r, [req[r] EXCEPT !.error = "Transcript not found"], 404, NoId)
        /\ UNCHANGED faults
     \/ /\ Exists(transcripts, tid)
        /\ req' = [req EXCEPT ![r].pc = "t_acquire",
                              ![r].paragraphs = transcripts[tid].content.raw_paragraphs]
        /\ UNCHANGED faults
  /\ UNCHANGED <<transcripts, speaker_mappings, upstream, clock, videos, staleTaken, classifier, panel>>

TriggerAcquire(r) ==
  /\ UNCHANGED <<started, lastSubmit>>
  /\ req[r].pc = "t_acquire"
  /\ LET tid == req[r].transcriptId
         res == tryAcquirePipelineLock(transcripts, tid, DateNow)
         busy == \E o \in ReqIds \ {r} :
                   InSection(o) /\ req[o].transcriptId = tid
         rec == [req[r] EXCEPT !.contended = busy]
     IN
     \/ /\ CanFault
        /\ faults' = faults + 1
        /\ ThrowOuter(r, req[r], "store")
        /\ UNCHANGED <<transcripts, staleTaken>>
     \/ /\ ~res.acquired
        /\ transcripts' = res.rows
        /\ Respond(r, [rec EXCEPT !.error = "Pipeline already running"], 409, NoId)
        /\ UNCHANGED <<faults, staleTaken>>
     \/ /\ res.acquired
        /\ transcripts' = res.rows
        /\ staleTaken' = IF transcripts[tid].pipeline_lock # NULL_TEXT
                         THEN staleTaken \cup {tid} ELSE staleTaken
        /\ req' = [req EXCEPT ![r] =
                     [rec EXCEPT !.acquired = TRUE, !.holding = TRUE,
                                 !.lockedAt = clock,
                                 !.pc = IF rec.paragraphs = 0
                                        THEN "t_fetch" ELSE "t_status1"]]
        /\ UNCHANGED faults
  /\ UNCHANGED <<speaker_mappings, upstream, clock, videos, classifier, panel>>

\* GET /v2/transcript/{id}/paragraphs of the transcription service
TriggerFetch(r) ==
  /\ UNCHANGED <<started, lastSubmit>>
  /\ req[r].pc = "t_fetch"
  /\ \/ ThrowInner(r, req[r], "Failed to fetch paragraphs from AssemblyAI")
     \/ ThrowInner(r, req[r], "No paragraphs available")
     \/ req' = [req EXCEPT ![r].pc = "t_status1", ![r].paragraphs = 1]
  /\ UNCHANGED <<transcripts, speaker_mappings, upstream, clock, videos, faults,
                 staleTaken, classifier, panel>>

TriggerStatus1(r) ==
  /\ UNCHANGED <<started, lastSubmit>>
  /\ req[r].pc = "t_status1"
  /\ \/ /\ CanFault
        /\ faults' = faults + 1
        /\ ThrowInner(r, req[r], "store")
        /\ UNCHANGED transcripts
     \/ /\ transcripts' = updateTranscriptStatus(transcripts, req[r].transcriptId,
                                                 "identifying_speakers", NULL_MSG, DateNow)
        /\ req' = [req EXCEPT ![r].pc = "t_identify", ![r].attributor = "running"]
        /\ UNCHANGED faults
  /\ UNCHANGED <<speaker_mappings, upstream, clock, videos, staleTaken, classifier, panel>>

\* TriggerIdentify calling identifySpeakers(paragraphs) without the
\* transcript id: the mapping is returned but not stored
TriggerIdentify_WithoutId(r) ==
  /\ UNCHANGED <<started, lastSubmit>>
  /\ req[r].pc = "t_identify"
  /\ \/ /\ speaker_mappings' = identifySpeakers(speaker_mappings, NoId, req[r].paragraphs)
        /\ req' = [req EXCEPT ![r].pc = "t_status2", ![r].attributor = "ok"]
     \/ /\ ThrowInner(r, [req[r] EXCEPT !.attributor = "failed"], "AttributionFailed")
        /\ UNCHANGED speaker_mappings
  /\ UNCHANGED <<transcripts, upstream, clock, videos, faults, staleTaken, classifier, panel>>

TriggerIdentify(r) ==
  /\ UNCHANGED <<started, lastSubmit>>
  /\ req[r].pc = "t_identify"
  /\ \/ /\ speaker_mappings' = identifySpeakers(speaker_mappings, req[r].transcriptId,
                                                req[r].paragraphs)
        /\ req' = [req EXCEPT ![r].pc = "t_status2", ![r].attributor = "ok"]
     \/ /\ ThrowInner(r, [req[r] EXCEPT !.attributor = "failed"], "AttributionFailed")
        /\ UNCHANGED speaker_mappings
  /\ UNCHANGED <<transcripts, upstream, clock, videos, faults, staleTaken, classifier, panel>>

TriggerStatus2(r) ==
  /\ UNCHANGED <<started, lastSubmit>>
  /\ req[r].pc = "t_status2"
  /\ \/ /\ CanFault
        /\ faults' = faults + 1
        /\ ThrowInner(r, req[r], "store")
        /\ UNCHANGED transcripts
     \/ /\ transcripts' = updateTranscriptStatus(transcripts, req[r].transcriptId,
                                                 "completed", NULL_MSG, DateNow)
        /\ req' = [req EXCEPT ![r].pc = "t_release", ![r].wroteCompleted = TRUE]
        /\ UNCHANGED faults
  /\ UNCHANGED <<speaker_mappings, upstream, clock, videos, staleTaken, classifier, panel>>

TriggerRelease(r) ==
  /\ UNCHANGED <<started, lastSubmit>>
  /\ req[r].pc = "t_release"
  /\ \/ /\ CanFault
        /\ faults' = faults + 1
        /\ ThrowInner(r, req[r], "store")
        /\ UNCHANGED transcripts
     \/ /\ transcripts' = releasePipelineLock(transcripts, req[r].transcriptId, DateNow)
        /\ req' = [req EXCEPT ![r].pc = "t_reread", ![r].holding = FALSE]
        /\ UNCHANGED faults
  /\ UNCHANGED <<speaker_mappings, upstream, clock, videos, staleTaken, classifier, panel>>

TriggerReread(r) ==
  /\ UNCHANGED <<started, lastSubmit>>
  /\ req[r].pc = "t_reread"
  /\ \/ /\ CanFault
        /\ faults' = faults + 1
        /\ ThrowInner(r, req[r], "store")
     \/ /\ Respond(r, req[r], 200, req[r].transcriptId)
        /\ UNCHANGED faults
  /\ UNCHANGED <<transcripts, speaker_mappings, upstream, clock, videos, staleTaken, classifier, panel>>

\* the inner catch: status -> error with the caught message, ...
TriggerCatch(r) ==
  /\ UNCHANGED <<started, lastSubmit>>
  /\ req[r].pc = "t_catch"
  /\ \/ /\ CanFault
        /\ faults' = faults + 1
        /\ ThrowOuter(r, req[r], "store")
        /\ UNCHANGED transcripts
     \/ /\ transcripts' = updateTranscriptStatus(transcripts, req[r].transcriptId,
                                                 "error", req[r].error, DateNow)
        /\ req' = [req EXCEPT ![r].pc = "t_catch_release", ![r].wroteError = TRUE]
        /\ UNCHANGED faults
  /\ UNCHANGED <<speaker_mappings, upstream, clock, videos, staleTaken, classifier, panel>>

\* ... then the release, then the rethrow to the outer catch
TriggerCatchRelease(r) ==
  /\ UNCHANGED <<started, lastSubmit>>
  /\ req[r].pc = "t_catch_release"
  /\ \/ /\ CanFault
        /\ faults' = faults + 1
        /\ ThrowOuter(r, req[r], "store")
        /\ UNCHANGED transcripts
     \/ /\ transcripts' = releasePipelineLock(transcripts, req[r].transcriptId, DateNow)
        /\ Respond(r, [req[r] EXCEPT !.holding = FALSE], 500, NoId)
        /\ UNCHANGED faults
  /\ UNCHANGED <<speaker_mappings, upstream, clock, videos, staleTaken, classifier, panel>>

\* ------------------------------------------ transcription client (lib)
\* pollTranscription: the upstream job of a row in status transcribing is
\* still running, has completed (statements are built and persisted with
\* status transcribed) or has failed (status error with the upstream text)
pollTranscription(r, rec, transcriptId) ==
  IF Exists(transcripts, transcriptId) /\ transcripts[transcriptId].status = "transcribing"
  THEN \/ /\ Respond(r, rec, 200, transcriptId)
          /\ UNCHANGED transcripts
       \/ /\ transcripts' = saveTranscript(transcripts,
                                           transcripts[transcriptId].entry_id, transcriptId,
                                           transcripts[transcriptId].start_time,
                                           transcripts[transcriptId].end_time,
                                           "transcribed", BuiltContent, DateNow)
          /\ Respond(r, rec, 200, transcriptId)
       \/ /\ transcripts' = updateTranscriptStatus(transcripts, transcriptId, "error",
                                                   "upstream error", DateNow)
          /\ ThrowOuter(r, rec, "upstream error")
  ELSE /\ Respond(r, rec, 200, transcriptId)
       /\ UNCHANGED transcripts

\* --------------------------------------------- submit transcription (POST)
\* the request bodies the panel sends: {kalturaId}, {kalturaId, force: true},
\* {kalturaId, checkOnly: true}
SubmitModes == {"plain", "force", "checkOnly"}

\* a request without kalturaId is answered 400
SubmitStart(r) ==
  /\ Free(r)
  /\ \/ Respond(r, [IdleReq EXCEPT !.kind = "submit",
                                   !.error = "Kaltura ID is required"], 400, NoId)
     \/ \E e \in EntryIds, range \in Ranges, mode \in SubmitModes :
          LET force == mode = "force"
              checkOnly == mode = "checkOnly"
          IN
          req' = [req EXCEPT ![r] = [IdleReq EXCEPT !.kind = "submit",
                                                     !.pc = "s_resolve",
                                                     !.entryId = e,
                                                     !.start_time = range[1],
                                                     !.end_time = range[2],
                                                     !.force = force,
                                                     !.checkOnly = checkOnly]]
  /\ started' = started + 1
  /\ UNCHANGED lastSubmit
  /\ UNCHANGED <<transcripts, speaker_mappings, upstream, clock, videos, faults, staleTaken, classifier, panel>>

\* a request body with checkOnly: true and any of the other fields
CheckStart(r) ==
  /\ Free(r)
  /\ \E e \in EntryIds, range \in Ranges, force \in BOOLEAN :
       req' = [req EXCEPT ![r] = [IdleReq EXCEPT !.kind = "submit",
                                                  !.pc = "s_resolve",
                                                  !.entryId = e,
                                                  !.start_time = range[1],
                                                  !.end_time = range[2],
                                                  !.force = force,
                                                  !.checkOnly = TRUE]]
  /\ started' = started + 1
  /\ UNCHANGED lastSubmit
  /\ UNCHANGED <<transcripts, speaker_mappings, videos, upstream, clock, faults,
                 staleTaken, classifier, panel>>

\* getKalturaAudioUrl
SubmitResolve(r) ==
  /\ req[r].pc = "s_resolve"
  /\ \/ /\ CanFault
        /\ faults' = faults + 1
        /\ ThrowOuter(r, req[r], "ResolutionFailed")
     \/ /\ req' = [req EXCEPT ![r].pc = IF req[r].force THEN "s_delete" ELSE "s_lookup"]
        /\ UNCHANGED faults
  /\ UNCHANGED <<transcripts, speaker_mappings, upstream, clock, videos, staleTaken, classifier, panel, started, lastSubmit>>

\* after the lookup or the purge: checkOnly answers, a live stream downloads
\* its segments first, anything else is submitted
SubmitFallThrough(r) ==
  IF req[r].checkOnly
  THEN Respond(r, req[r], 200, NoId)
  ELSE \E next \in {"s_hls", "s_submit"} : req' = [req EXCEPT ![r].pc = next]

\* SubmitLookup without the cached branch: a completed row is polled like a
\* row in flight
SubmitLookup_NoCacheHit(r) ==
  /\ req[r].pc = "s_lookup"
  /\ LET found == getTranscript(transcripts, req[r].entryId, req[r].start_time,
                                req[r].end_time, FALSE)
     IN
     \/ /\ found = {}
        /\ SubmitFallThrough(r)
     \/ \E t \in found :
          IF transcripts[t].status # "error"
          THEN req' = [req EXCEPT ![r].pc = "s_poll", ![r].transcriptId = t]
          ELSE SubmitFallThrough(r)
  /\ UNCHANGED <<transcripts, speaker_mappings, upstream, clock, videos, faults, staleTaken, classifier, panel,
                 started, lastSubmit>>

SubmitLookup(r) ==
  /\ req[r].pc = "s_lookup"
  /\ LET found == getTranscript(transcripts, req[r].entryId, req[r].start_time,
                                req[r].end_time, FALSE)
     IN
     \/ /\ CanFault
        /\ faults' = faults + 1
        /\ ThrowOuter(r, req[r], "store")
     \/ /\ found = {}
        /\ SubmitFallThrough(r)
        /\ UNCHANGED faults
     \/ /\ \E t \in found :
             IF transcripts[t].status = "completed" /\ transcripts[t].content.statements > 0
             THEN req' = [req EXCEPT ![r].pc = "s_mapping", ![r].transcriptId = t]
             ELSE IF transcripts[t].status # "error"
             THEN req' = [req EXCEPT ![r].pc = "s_poll", ![r].transcriptId = t]
             ELSE SubmitFallThrough(r)
        /\ UNCHANGED faults
  /\ UNCHANGED <<transcripts, speaker_mappings, upstream, clock, videos, staleTaken, classifier, panel, started, lastSubmit>>

\* cache hit: getSpeakerMapping, then the cached body
SubmitMapping(r) ==
  /\ req[r].pc = "s_mapping"
  /\ \/ /\ CanFault
        /\ faults' = faults + 1
        /\ ThrowOuter(r, req[r], "store")
     \/ /\ Respond(r, req[r], 200, req[r].transcriptId)
        /\ UNCHANGED faults
  /\ UNCHANGED <<transcripts, speaker_mappings, upstream, clock, videos, staleTaken, classifier, panel, started, lastSubmit>>

SubmitPoll(r) ==
  /\ req[r].pc = "s_poll"
  /\ pollTranscription(r, req[r], req[r].transcriptId)
  /\ UNCHANGED <<speaker_mappings, upstream, clock, videos, faults, staleTaken, classifier, panel, started, lastSubmit>>

SubmitDelete(r) ==
  /\ req[r].pc = "s_delete"
  /\ \/ /\ CanFault
        /\ faults' = faults + 1
        /\ ThrowOuter(r, req[r], "store")
        /\ UNCHANGED <<transcripts, lastSubmit>>
     \/ /\ transcripts' = deleteTranscriptsForEntry(transcripts, req[r].entryId)
        /\ SubmitFallThrough(r)
        /\ lastSubmit' = [k \in Keys |-> IF k[1] = req[r].entryId THEN NoId
                                         ELSE lastSubmit[k]]
        /\ UNCHANGED faults
  /\ UNCHANGED <<speaker_mappings, upstream, clock, videos, staleTaken, classifier, panel, started>>

\* POST /api/download-hls
SubmitHls(r) ==
  /\ req[r].pc = "s_hls"
  /\ \/ Respond(r, [req[r] EXCEPT !.error = "Failed to download HLS"], 500, NoId)
     \/ req' = [req EXCEPT ![r].pc = "s_submit"]
  /\ UNCHANGED <<transcripts, speaker_mappings, upstream, clock, videos, faults, staleTaken, classifier, panel,
                 started, lastSubmit>>

\* submitTranscription: the upstream service issues the next transcript id
SubmitUpstream(r) ==
  /\ req[r].pc = "s_submit"
  /\ \/ /\ CanFault
        /\ faults' = faults + 1
        /\ ThrowOuter(r, req[r], "upstream error")
        /\ UNCHANGED upstream
     \/ /\ Cardinality(DOMAIN upstream) < MaxTranscripts
        /\ LET id == Cardinality(DOMAIN upstream) + 1 IN
           /\ upstream' = upstream @@ (id :> [entryId |-> req[r].entryId,
                                              start_time |-> req[r].start_time,
                                              end_time |-> req[r].end_time])
           /\ req' = [req EXCEPT ![r].pc = "s_save", ![r].transcriptId = id]
        /\ UNCHANGED faults
  /\ UNCHANGED <<transcripts, speaker_mappings, clock, videos, staleTaken, classifier, panel, started, lastSubmit>>

\* SubmitSave storing every row as a whole-resource row
SubmitSave_DropsRange(r) ==
  /\ req[r].pc = "s_save"
  /\ transcripts' = saveTranscript(transcripts, req[r].entryId, req[r].transcriptId,
                                   NullTime, NullTime,
                                   "transcribing", EmptyContent, DateNow)
  /\ Respond(r, req[r], 200, req[r].transcriptId)
  /\ lastSubmit' = [lastSubmit EXCEPT
                      ![<<req[r].entryId, req[r].start_time, req[r].end_time>>] =
                        IF req[r].force THEN NoId ELSE req[r].transcriptId]
  /\ UNCHANGED <<speaker_mappings, upstream, clock, videos, faults, staleTaken, classifier, panel, started>>

SubmitSave(r) ==
  /\ req[r].pc = "s_save"
  /\ \/ /\ CanFault
        /\ faults' = faults + 1
        /\ ThrowOuter(r, req[r], "store")
        /\ UNCHANGED <<transcripts, lastSubmit>>
     \/ /\ transcripts' = saveTranscript(transcripts, req[r].entryId, req[r].transcriptId,
                                         req[r].start_time, req[r].end_time,
                                         "transcribing", EmptyContent, DateNow)
        /\ Respond(r, req[r], 200, req[r].transcriptId)
        /\ lastSubmit' = [lastSubmit EXCEPT
                            ![<<req[r].entryId, req[r].start_time, req[r].end_time>>] =
                              IF req[r].force THEN NoId ELSE req[r].transcriptId]
        /\ UNCHANGED faults
  /\ UNCHANGED <<speaker_mappings, upstream, clock, videos, staleTaken, classifier, panel, started>>

\* ----------------------------------------------- poll transcription (POST)
\* a request without transcriptId is answered 400
PollStart(r) ==
  /\ Free(r)
  /\ \/ Respond(r, [IdleReq EXCEPT !.kind = "poll",
                                   !.error = "Transcript ID required"], 400, NoId)
     \/ \E tid \in Issued :
          req' = [req EXCEPT ![r] = [IdleReq EXCEPT !.kind = "poll", !.pc = "p_poll",
                                                     !.transcriptId = tid]]
  /\ started' = started + 1
  /\ UNCHANGED lastSubmit
  /\ UNCHANGED <<transcripts, speaker_mappings, upstream, clock, videos, faults, staleTaken, classifier, panel>>

\* pollTranscription and getSpeakerMapping; a call that throws is answered
\* 500 by the catch and leaves the row as it was
PollPoll(r) ==
  /\ req[r].pc = "p_poll"
  /\ \/ /\ CanFault
        /\ faults' = faults + 1
        /\ ThrowOuter(r, req[r], "store")
        /\ UNCHANGED transcripts
     \/ /\ pollTranscription(r, req[r], req[r].transcriptId)
        /\ UNCHANGED faults
  /\ UNCHANGED <<speaker_mappings, upstream, clock, videos, staleTaken, classifier, panel,
                 started, lastSubmit>>

\* ------------------------------------------- store writes of one request
\* the five functions of turso.ts that write updated_at
StoreWrites == {"saveTranscript", "updateTranscriptStatus", "updateTranscriptContent",
                "tryAcquirePipelineLock", "releasePipelineLock"}

\* const now = new Date().toISOString(): the function reads the clock and
\* sends its statement; the store applies it when it arrives
WriteSend(r) ==
  /\ Free(r)
  /\ \E op \in StoreWrites, t \in DOMAIN transcripts :
       req' = [req EXCEPT ![r] = [IdleReq EXCEPT !.kind = "write", !.pc = "x_sent",
                                                  !.op = op, !.transcriptId = t,
                                                  !.now = DateNow]]
  /\ started' = started + 1
  /\ UNCHANGED lastSubmit
  /\ UNCHANGED <<transcripts, speaker_mappings, videos, upstream, clock, faults,
                 staleTaken, classifier, panel>>

\* client.execute: the statement is applied with the timestamp it carries
WriteApply(r) ==
  /\ req[r].pc = "x_sent"
  /\ LET t == req[r].transcriptId
         now == req[r].now
     IN transcripts' =
          CASE req[r].op = "saveTranscript" ->
                 saveTranscript(transcripts, transcripts[t].entry_id, t,
                                transcripts[t].start_time, transcripts[t].end_time,
                                "transcribed", BuiltContent, now)
            [] req[r].op = "updateTranscriptStatus" ->
                 updateTranscriptStatus(transcripts, t, "completed", NULL_MSG, now)
            [] req[r].op = "updateTranscriptContent" ->
                 updateTranscriptContent(transcripts, t, BuiltContent, now)
            [] req[r].op = "tryAcquirePipelineLock" ->
                 tryAcquirePipelineLock(transcripts, t, now).rows
            [] OTHER -> releasePipelineLock(transcripts, t, now)
  /\ Respond(r, req[r], 0, NoId)
  /\ UNCHANGED <<speaker_mappings, videos, upstream, clock, faults, staleTaken,
                 classifier, panel, started, lastSubmit>>

\* --------------------------------- retrieve enriched transcript (GET /json)
\* the asset ids a caller can name: one the catalog lists, one it does not
AssetIds == {"a1", "a2"}

\* updateVideoEntryId: UPDATE videos SET entry_id = ?, updated_at = ? WHERE
\* asset_id = ?
updateVideoEntryId(vs, assetId, entryId, nowMs) ==
  [a \in DOMAIN vs |->
     IF a = assetId THEN [vs[a] EXCEPT !.entry_id = entryId,
                                       !.updated_at = toISOString(nowMs)]
     ELSE vs[a]]

RetrieveStart(r) ==
  /\ Free(r)
  /\ \E a \in AssetIds :
       req' = [req EXCEPT ![r] = [IdleReq EXCEPT !.kind = "retrieve", !.pc = "j_video",
                                                  !.entryId = "", !.assetId = a]]
  /\ started' = started + 1
  /\ UNCHANGED lastSubmit
  /\ UNCHANGED <<transcripts, speaker_mappings, videos, upstream, clock, faults,
                 staleTaken, classifier, panel>>

\* getVideoById and getVideoMetadata: a video the catalog does not list is
\* answered 404
RetrieveVideo(r) ==
  /\ req[r].pc = "j_video"
  /\ \/ /\ CanFault
        /\ faults' = faults + 1
        /\ ThrowOuter(r, req[r], "store")
     \/ /\ IF req[r].assetId \in DOMAIN videos
           THEN req' = [req EXCEPT ![r].pc = "j_resolve"]
           ELSE Respond(r, [req[r] EXCEPT !.error = "Video not found"], 404, NoId)
        /\ UNCHANGED faults
  /\ UNCHANGED <<transcripts, speaker_mappings, videos, upstream, clock, staleTaken,
                 classifier, panel, started, lastSubmit>>

\* resolveEntryId, steps 1 and 2: no Kaltura id, a failed or empty answer of
\* the Kaltura API return null; otherwise the entry id is known
RetrieveResolve(r) ==
  /\ req[r].pc = "j_resolve"
  /\ \/ Respond(r, [req[r] EXCEPT !.error = "Unable to resolve video entry ID"],
                200, NoId)
     \/ \E e \in EntryIds : req' = [req EXCEPT ![r].pc = "j_cache", ![r].entryId = e]
  /\ UNCHANGED <<transcripts, speaker_mappings, videos, upstream, clock, faults,
                 staleTaken, classifier, panel, started, lastSubmit>>

\* resolveEntryId, step 3: the resolved entry id is written to the catalog
\* row of the asset; a failure of the write is logged and ignored
RetrieveCache(r) ==
  /\ req[r].pc = "j_cache"
  /\ \/ /\ CanFault
        /\ faults' = faults + 1
        /\ UNCHANGED videos
     \/ /\ videos' = updateVideoEntryId(videos, req[r].assetId, req[r].entryId, DateNow)
        /\ UNCHANGED faults
  /\ req' = [req EXCEPT ![r].pc = "j_transcript"]
  /\ UNCHANGED <<transcripts, speaker_mappings, upstream, clock, staleTaken,
                 classifier, panel, started, lastSubmit>>

\* getTranscript(entryId): the latest completed whole-resource row
RetrieveTranscript(r) ==
  /\ req[r].pc = "j_transcript"
  /\ LET found == getTranscript(transcripts, req[r].entryId, NullTime, NullTime, TRUE) IN
     \/ /\ CanFault
        /\ faults' = faults + 1
        /\ ThrowOuter(r, req[r], "store")
     \/ /\ found = {}
        /\ Respond(r, req[r], 200, NoId)
        /\ UNCHANGED faults
     \/ /\ \E t \in found : req' = [req EXCEPT ![r].pc = "j_mapping",
                                                ![r].transcriptId = t]
        /\ UNCHANGED faults
  /\ UNCHANGED <<transcripts, speaker_mappings, videos, upstream, clock, staleTaken,
                 classifier, panel, started, lastSubmit>>

\* getSpeakerMapping, getCountryName and the response with the transcript
RetrieveMapping(r) ==
  /\ req[r].pc = "j_mapping"
  /\ \/ /\ CanFault
        /\ faults' = faults + 1
        /\ ThrowOuter(r, req[r], "store")
     \/ /\ Respond(r, req[r], 200, req[r].transcriptId)
        /\ UNCHANGED faults
  /\ UNCHANGED <<transcripts, speaker_mappings, videos, upstream, clock, staleTaken,
                 classifier, panel, started, lastSubmit>>

\* ------------------------------------ transcription panel (client), poll loop
\* the body of a poll response as the panel reads it: the route's 200 body is
\* the result of pollTranscription for the row it names; a non-2xx body
\* carries the error text only
pollData(pollResponse) ==
  IF pollResponse.status = 200 /\ Exists(transcripts, pollResponse.body)
  THEN LET row == transcripts[pollResponse.body]
       IN [status |-> IF row.status = "error" THEN "error"
                      ELSE IF row.content.statements > 0 THEN "completed"
                      ELSE "processing",
           statements |-> row.content.statements,
           error |-> IF row.error_message = NULL_MSG THEN "" ELSE row.error_message]
  ELSE [status |-> "", statements |-> 0, error |-> pollResponse.error]

\* finally { setLoading(false) }
Finally(p) == [p EXCEPT !.loading = FALSE, !.pc = "done"]

\* catch (err) { setError(err.message) }
Caught(p, message) == Finally([p EXCEPT !.error = message])

\* after the while loop: if (pollCount >= maxPolls) throw
AfterLoop(p) ==
  IF p.pollCount >= maxPolls THEN Caught(p, "Transcription timeout") ELSE Finally(p)

\* handleTranscribe up to the loop: loading is set, the error cleared, and
\* the submit response names a transcript that is not cached; the loop is
\* entered with pollCount 0 and the first sleep begins
PanelStart ==
  /\ panel.pc = "idle"
  /\ \E tid \in DOMAIN transcripts :
       /\ transcripts[tid].status = "transcribing"
       /\ panel' = [IdlePanel EXCEPT !.pc = "w_sleep", !.loading = TRUE,
                                     !.transcriptId = tid]
  /\ UNCHANGED <<transcripts, speaker_mappings, upstream, clock, videos, req, faults,
                 staleTaken, classifier, started, lastSubmit>>

\* the 3-second timer fires: pollCount++ and the poll request is sent; the
\* route reads its transcriptId
PanelWake ==
  /\ panel.pc = "w_sleep"
  /\ \E r \in ReqIds :
       /\ ~Alive(r)
       /\ \A o \in ReqIds : o < r => Alive(o)
       /\ req' = [req EXCEPT ![r] = [IdleReq EXCEPT !.kind = "poll", !.pc = "p_poll",
                                                  !.transcriptId = panel.transcriptId]]
       /\ panel' = [panel EXCEPT !.pc = "w_await", !.slot = r,
                                 !.pollCount = panel.pollCount + 1,
                                 !.slept = panel.slept + PollIntervalMs]
  /\ UNCHANGED <<transcripts, speaker_mappings, upstream, clock, videos, faults,
                 staleTaken, classifier, started, lastSubmit>>

\* the poll response arrives
PanelReceive ==
  /\ panel.pc = "w_await"
  /\ req[panel.slot].pc = "done"
  /\ LET pollResponse == req[panel.slot]
         data == pollData(pollResponse)
     IN panel' =
          IF pollResponse.status # 200
          THEN Caught(panel, "Failed to poll transcript status")
          ELSE IF data.status = "completed" /\ data.statements > 0
          THEN AfterLoop([panel EXCEPT !.statements = data.statements])
          ELSE IF data.status = "error"
          THEN Caught(panel, IF data.error # "" THEN data.error
                             ELSE "Transcription failed")
          ELSE IF panel.pollCount < maxPolls
          THEN [panel EXCEPT !.pc = "w_sleep"]
          ELSE AfterLoop(panel)
  /\ UNCHANGED <<transcripts, speaker_mappings, upstream, clock, videos, req, faults,
                 staleTaken, classifier, started, lastSubmit>>

\* ------------------------------------- identify speakers (POST), no lock
IdentifyStart(r) ==
  /\ Free(r)
  /\ \E tid \in Issued, given \in {0, 1} :
       req' = [req EXCEPT ![r] = [IdleReq EXCEPT !.kind = "identify",
                                                  !.pc = IF given = 0 THEN "i_entry"
                                                         ELSE "i_identify",
                                                  !.attributor = IF given = 0 THEN "none"
                                                                 ELSE "running",
                                                  !.entryId = "",
                                                  !.paragraphs = given,
                                                  !.transcriptId = tid]]
  /\ started' = started + 1
  /\ UNCHANGED lastSubmit
  /\ UNCHANGED <<transcripts, speaker_mappings, upstream, clock, videos, faults, staleTaken, classifier, panel>>

\* SELECT entry_id FROM transcripts WHERE transcript_id = ?
IdentifyEntry(r) ==
  /\ req[r].pc = "i_entry"
  /\ \/ /\ CanFault
        /\ faults' = faults + 1
        /\ ThrowOuter(r, req[r], "store")
     \/ /\ req' = [req EXCEPT ![r].pc = "i_fetch",
                              ![r].entryId = IF Exists(transcripts, req[r].transcriptId)
                                             THEN transcripts[req[r].transcriptId].entry_id
                                             ELSE ""]
        /\ UNCHANGED faults
  /\ UNCHANGED <<transcripts, speaker_mappings, upstream, clock, videos, staleTaken, classifier, panel, started, lastSubmit>>

IdentifyFetch(r) ==
  /\ req[r].pc = "i_fetch"
  /\ \/ Respond(r, [req[r] EXCEPT !.error = "Failed to fetch paragraphs from AssemblyAI"],
                500, NoId)
     \/ Respond(r, [req[r] EXCEPT !.error = "No paragraphs available"], 400, NoId)
     \/ req' = [req EXCEPT ![r].pc = "i_identify", ![r].paragraphs = 1,
                           ![r].attributor = "running"]
  /\ UNCHANGED <<transcripts, speaker_mappings, upstream, clock, videos, faults, staleTaken, classifier, panel,
                 started, lastSubmit>>

IdentifyRun(r) ==
  /\ req[r].pc = "i_identify"
  /\ \/ /\ speaker_mappings' = identifySpeakers(speaker_mappings, req[r].transcriptId,
                                                req[r].paragraphs)
        /\ IF req[r].entryId # ""
           THEN req' = [req EXCEPT ![r].pc = "i_reread", ![r].attributor = "ok"]
           ELSE Respond(r, [req[r] EXCEPT !.attributor = "ok"], 200, req[r].transcriptId)
     \/ /\ ThrowOuter(r, [req[r] EXCEPT !.attributor = "failed"], "AttributionFailed")
        /\ UNCHANGED speaker_mappings
  /\ UNCHANGED <<transcripts, upstream, clock, videos, faults, staleTaken, classifier, panel, started, lastSubmit>>

\* getTranscript(entryIdValue) for the response body
IdentifyReread(r) ==
  /\ req[r].pc = "i_reread"
  /\ \/ /\ CanFault
        /\ faults' = faults + 1
        /\ ThrowOuter(r, req[r], "store")
     \/ /\ Respond(r, req[r], 200, req[r].transcriptId)
        /\ UNCHANGED faults
  /\ UNCHANGED <<transcripts, speaker_mappings, upstream, clock, videos, staleTaken, classifier, panel, started, lastSubmit>>

\* ------------------------------------ speaker classification (POST)
\* setSpeakerMapping: the mapping of a transcript id is replaced as a whole
setSpeakerMapping(sm, transcriptId, mapping) ==
  [t \in DOMAIN sm \cup {transcriptId} |->
     IF t = transcriptId THEN mapping ELSE sm[t]]

\* what the handler answers when the completion has no content, and what
\* JSON.parse throws on a content that is no JSON
ParseFailures == {"Failed to parse speaker mappings", "Unexpected token"}

ClassifyStart(r) ==
  /\ Free(r)
  /\ \E n \in 0..MaxParagraphs, tid \in Issued \cup {NoId} :
       LET rec == [IdleReq EXCEPT !.kind = "classify", !.paragraphs = n,
                                  !.transcriptId = tid]
       IN IF n = 0
          THEN Respond(r, [rec EXCEPT !.error = "No paragraphs provided"], 400, NoId)
          ELSE req' = [req EXCEPT ![r] = [rec EXCEPT !.pc = "c_call"]]
  /\ started' = started + 1
  /\ UNCHANGED <<transcripts, speaker_mappings, upstream, clock, videos, faults, staleTaken, classifier, panel,
                 lastSubmit>>

\* ClassifyFailed with the records parsed so far stored before the exit
ClassifyFailed_StoresPartial(r, message) ==
  /\ ThrowOuter(r, req[r], message)
  /\ speaker_mappings' = setSpeakerMapping(speaker_mappings, req[r].transcriptId, 0)

\* the handler's exits that follow a completion with no usable result: the
\* 500 response, with nothing stored
ClassifyFailed(r, message) ==
  /\ ThrowOuter(r, req[r], message)
  /\ UNCHANGED speaker_mappings

\* client.chat.completions.create and the parse of its result: the call
\* throws, the completion has no content, the content is no JSON or lacks the
\* paragraphs array, or it holds records for k of the paragraphs
ClassifyCall(r) ==
  /\ req[r].pc = "c_call"
  /\ \/ /\ ThrowOuter(r, req[r], "upstream error")
        /\ UNCHANGED speaker_mappings
     \/ \E message \in ParseFailures : ClassifyFailed(r, message)
     \/ \E k \in 0..req[r].paragraphs :
          IF req[r].transcriptId # NoId
          THEN /\ req' = [req EXCEPT ![r].pc = "c_store", ![r].mapping = k]
               /\ UNCHANGED speaker_mappings
          ELSE /\ Respond(r, [req[r] EXCEPT !.mapping = k], 200, NoId)
               /\ UNCHANGED speaker_mappings
  /\ UNCHANGED <<transcripts, upstream, clock, videos, faults, staleTaken, classifier, panel, started, lastSubmit>>

ClassifyStore(r) ==
  /\ req[r].pc = "c_store"
  /\ \/ /\ CanFault
        /\ faults' = faults + 1
        /\ ThrowOuter(r, req[r], "store")
        /\ UNCHANGED speaker_mappings
     \/ /\ speaker_mappings' = setSpeakerMapping(speaker_mappings, req[r].transcriptId,
                                                 req[r].mapping)
        /\ Respond(r, req[r], 200, req[r].transcriptId)
        /\ UNCHANGED faults
  /\ UNCHANGED <<transcripts, upstream, clock, videos, staleTaken, classifier, panel, started, lastSubmit>>

\* ------------------------------------------------ topic tagger (script)
\* the slugs of the taxonomy, each a text of one token
TopicSlugs == {<<"74a">>, <<"77b">>}

\* a sentence that has no un80_topic_keys property
NO_KEYS == << <<"undefined">> >>

\* completion texts, as sequences of tokens: a slug or a word, "," and " "
ResponseTexts ==
  { <<>>, <<"none">>, <<" ", "None">>, <<"74a">>,
    <<" ", "74a", ",", " ", "77b", ",">>, <<"zz">> }

\* what a completion call does: it answers with a text or it throws
Outcomes == [ok : {TRUE}, text : ResponseTexts] \cup {[ok |-> FALSE, text |-> <<>>]}

\* String.prototype.trim
RECURSIVE trimStart(_)
trimStart(text) ==
  IF text # <<>> /\ Head(text) = " " THEN trimStart(Tail(text)) ELSE text

RECURSIVE trimEnd(_)
trimEnd(text) ==
  IF text # <<>> /\ text[Len(text)] = " "
  THEN trimEnd(SubSeq(text, 1, Len(text) - 1)) ELSE text

trim(text) == trimEnd(trimStart(text))

toLowerCase(text) ==
  [i \in DOMAIN text |-> IF text[i] = "None" THEN "none" ELSE text[i]]

\* text.split(','): the pieces between the commas
RECURSIVE split(_, _)
split(text, piece) ==
  IF text = <<>> THEN <<piece>>
  ELSE IF Head(text) = "," THEN <<piece>> \o split(Tail(text), <<>>)
  ELSE split(Tail(text), Append(piece, Head(text)))

\* .map(t => t.trim()).filter(Boolean)
RECURSIVE trimAndFilter(_)
trimAndFilter(pieces) ==
  IF pieces = <<>> THEN <<>>
  ELSE (IF trim(Head(pieces)) = <<>> THEN <<>> ELSE <<trim(Head(pieces))>>)
       \o trimAndFilter(Tail(pieces))

\* the un80_topic_keys a task stores for what its call did
un80_topic_keys(outcome) ==
  IF ~outcome.ok THEN <<>>
  ELSE LET text == trim(outcome.text) IN
       IF toLowerCase(text) = <<"none">> \/ text = <<>> THEN <<>>
       ELSE trimAndFilter(split(text, <<>>))

\* the prompt of the task of sentence globalIdx: the topic list and the texts
\* of the sentence and of two sentences before and after it
Prompt(allSentences, globalIdx) ==
  LET n == Len(allSentences)
      lo == IF globalIdx - 2 < 1 THEN 1 ELSE globalIdx - 2
      hi == IF globalIdx + 2 > n THEN n ELSE globalIdx + 2
  IN [topics |-> TopicSlugs,
      before |-> [i \in 1..(globalIdx - lo) |-> allSentences[lo + i - 1].text],
      current |-> allSentences[globalIdx].text,
      after |-> [i \in 1..(hi - globalIdx) |-> allSentences[globalIdx + i].text]]

TagStart(r) ==
  /\ Free(r)
  /\ \E e \in EntryIds :
       req' = [req EXCEPT ![r] = [IdleReq EXCEPT !.kind = "tag", !.pc = "g_load",
                                                  !.entryId = e]]
  /\ started' = started + 1
  /\ UNCHANGED lastSubmit
  /\ UNCHANGED <<transcripts, speaker_mappings, upstream, clock, videos, faults, staleTaken, classifier, panel>>

\* loadTranscripts (SINGLE_QUERY): the latest completed whole-resource row
TagLoad(r) ==
  /\ req[r].pc = "g_load"
  /\ LET found == getTranscript(transcripts, req[r].entryId, NullTime, NullTime, TRUE) IN
     \/ /\ CanFault
        /\ faults' = faults + 1
        /\ ThrowOuter(r, req[r], "store")
     \/ /\ found = {}
        /\ Respond(r, req[r], 0, NoId)
        /\ UNCHANGED faults
     \/ /\ \E t \in found :
             IF transcripts[t].content.statements = 0
             THEN Respond(r, req[r], 0, NoId)
             ELSE LET allSentences == transcripts[t].content.sentences IN
                  req' = [req EXCEPT ![r].pc = "g_save", ![r].transcriptId = t,
                                     ![r].content = transcripts[t].content,
                                     ![r].tasks = [i \in DOMAIN allSentences |->
                                                     Prompt(allSentences, i)]]
        /\ UNCHANGED faults
  /\ UNCHANGED <<transcripts, speaker_mappings, upstream, clock, videos, staleTaken, classifier, panel, started, lastSubmit>>

\* TagCall appending the answered tags to those the sentence already has
TagCall_Accumulates(r) ==
  /\ req[r].pc = "g_save"
  /\ \E globalIdx \in DOMAIN req[r].tasks :
       LET prompt == req[r].tasks[globalIdx]
           known == prompt \in DOMAIN classifier
           old == req[r].content.sentences[globalIdx].un80_topic_keys
       IN \E outcome \in (IF known THEN {classifier[prompt]} ELSE Outcomes) :
            /\ classifier' = IF known THEN classifier
                             ELSE [q \in DOMAIN classifier \cup {prompt} |->
                                     IF q = prompt THEN outcome ELSE classifier[q]]
            /\ req' = [req EXCEPT
                         ![r].content.sentences[globalIdx].un80_topic_keys =
                            (IF old = NO_KEYS THEN <<>> ELSE old)
                              \o un80_topic_keys(outcome),
                         ![r].tasks = [i \in DOMAIN req[r].tasks \ {globalIdx} |->
                                         req[r].tasks[i]]]
  /\ UNCHANGED <<transcripts, speaker_mappings, upstream, clock, videos, faults, staleTaken,
                 panel, started, lastSubmit>>

\* TagCall storing the tags on the first sentence not yet written, in the
\* order in which the calls settle
TagCall_WritesInArrivalOrder(r) ==
  /\ req[r].pc = "g_save"
  /\ \E globalIdx \in DOMAIN req[r].tasks :
       LET prompt == req[r].tasks[globalIdx]
           known == prompt \in DOMAIN classifier
           next == Len(req[r].content.sentences)
                     - Cardinality(DOMAIN req[r].tasks) + 1
       IN \E outcome \in (IF known THEN {classifier[prompt]} ELSE Outcomes) :
            /\ classifier' = IF known THEN classifier
                             ELSE [q \in DOMAIN classifier \cup {prompt} |->
                                     IF q = prompt THEN outcome ELSE classifier[q]]
            /\ req' = [req EXCEPT
                         ![r].content.sentences[next].un80_topic_keys =
                            un80_topic_keys(outcome),
                         ![r].tasks = [i \in DOMAIN req[r].tasks \ {globalIdx} |->
                                         req[r].tasks[i]]]
  /\ UNCHANGED <<transcripts, speaker_mappings, upstream, clock, videos, faults, staleTaken,
                 panel, started, lastSubmit>>

\* TagCall with a failed call rejecting the whole pass
TagCall_AbortsOnFailure(r) ==
  /\ req[r].pc = "g_save"
  /\ \E globalIdx \in DOMAIN req[r].tasks :
       LET prompt == req[r].tasks[globalIdx]
           known == prompt \in DOMAIN classifier
       IN \E outcome \in (IF known THEN {classifier[prompt]} ELSE Outcomes) :
            /\ classifier' = IF known THEN classifier
                             ELSE [q \in DOMAIN classifier \cup {prompt} |->
                                     IF q = prompt THEN outcome ELSE classifier[q]]
            /\ IF outcome.ok
               THEN req' = [req EXCEPT
                              ![r].content.sentences[globalIdx].un80_topic_keys =
                                 un80_topic_keys(outcome),
                              ![r].tasks = [i \in DOMAIN req[r].tasks \ {globalIdx} |->
                                              req[r].tasks[i]]]
               ELSE ThrowOuter(r, req[r], "classifier")
  /\ UNCHANGED <<transcripts, speaker_mappings, upstream, clock, videos, faults, staleTaken,
                 panel, started, lastSubmit>>

\* one task of tagSentencesWithUN80Topics settles: its completion call answers
\* or throws, and the task writes its sentence's un80_topic_keys.  The
\* classifier is deterministic: the first call with a prompt fixes what every
\* call with that prompt does.
TagCall(r) ==
  /\ req[r].pc = "g_save"
  /\ \E globalIdx \in DOMAIN req[r].tasks :
       LET prompt == req[r].tasks[globalIdx]
           known == prompt \in DOMAIN classifier
       IN \E outcome \in (IF known THEN {classifier[prompt]} ELSE Outcomes) :
            /\ classifier' = IF known THEN classifier
                             ELSE [q \in DOMAIN classifier \cup {prompt} |->
                                     IF q = prompt THEN outcome ELSE classifier[q]]
            /\ req' = [req EXCEPT
                         ![r].content.sentences[globalIdx].un80_topic_keys =
                            un80_topic_keys(outcome),
                         ![r].tasks = [i \in DOMAIN req[r].tasks \ {globalIdx} |->
                                         req[r].tasks[i]]]
  /\ UNCHANGED <<transcripts, speaker_mappings, upstream, clock, videos, faults, staleTaken,
                 panel, started, lastSubmit>>

\* after Promise.all of the tasks: the un80_topics dictionary is added and
\* saveTranscript writes the content with status completed
TagSave(r) ==
  /\ req[r].pc = "g_save"
  /\ DOMAIN req[r].tasks = {}
  /\ \/ /\ CanFault
        /\ faults' = faults + 1
        /\ ThrowOuter(r, req[r], "store")
        /\ UNCHANGED transcripts
     \/ /\ transcripts' = saveTranscript(transcripts, req[r].entryId, req[r].transcriptId,
                                         NullTime, NullTime, "completed",
                                         [req[r].content EXCEPT !.un80_topics = TRUE],
                                         DateNow)
        /\ Respond(r, req[r], 0, req[r].transcriptId)
        /\ UNCHANGED faults
  /\ UNCHANGED <<speaker_mappings, upstream, clock, videos, staleTaken, classifier, panel, started, lastSubmit>>

\* ------------------------------------------- segment gap analysis (POST)
\* the time ranges of the rows a store may hold for a resource
SegmentRanges ==
  << <<NullTime, NullTime>>, <<0, 100>>, <<150, 300>>, <<0, 300>> >>

\* totalDuration and currentTime of a request body; NullTime when absent
TotalDurations == {NullTime, 0, 100, 300}
CurrentTimes == {NullTime, 200}

\* x || 0
OrZero(x) == IF x = NullTime THEN 0 ELSE x

\* getAllTranscriptsForEntry: the completed rows of a resource
getAllTranscriptsForEntry(ts, entryId) ==
  {t \in DOMAIN ts : ts[t].entry_id = entryId /\ ts[t].status = "completed"}

hasCompleteTranscript(ts, existingSegments, totalDuration) ==
  \E seg \in existingSegments :
    /\ ts[seg].start_time = NullTime \/ ts[seg].start_time = 0
    /\ ts[seg].end_time = NullTime \/ ts[seg].end_time >= OrZero(totalDuration)

\* completedSegments: {start, end} of the completed rows, sorted by start;
\* the order of rows with equal start is the store's
completedSegments(ts, existingSegments) ==
  LET n == Cardinality(existingSegments)
      orders == {f \in [1..n -> existingSegments] :
                   /\ \A i, j \in 1..n : i # j => f[i] # f[j]
                   /\ \A i, j \in 1..n :
                        i < j => OrZero(ts[f[i]].start_time) <= OrZero(ts[f[j]].start_time)}
  IN {[i \in 1..n |-> <<OrZero(ts[f[i]].start_time), OrZero(ts[f[i]].end_time)>>] :
        f \in orders}

\* the gaps between consecutive segments, from the i-th on
RECURSIVE gapsBetween(_, _)
gapsBetween(segs, i) ==
  IF i >= Len(segs) THEN <<>>
  ELSE (IF segs[i + 1][1] > segs[i][2] THEN << <<segs[i][2], segs[i + 1][1]>> >>
        ELSE <<>>) \o gapsBetween(segs, i + 1)

\* the live branch: gaps up to targetEnd
liveGaps(segs, targetEnd) ==
  IF Len(segs) = 0 THEN << <<0, targetEnd>> >>
  ELSE (IF segs[1][1] > 0 THEN << <<0, segs[1][1]>> >> ELSE <<>>)
       \o gapsBetween(segs, 1)
       \o (IF segs[Len(segs)][2] < targetEnd
           THEN << <<segs[Len(segs)][2], targetEnd>> >> ELSE <<>>)

\* the 200 response of the analysis
SegmentsRespond(r, existing, gaps, needsFull) ==
  req' = [req EXCEPT ![r] = [Ended(req[r], "done") EXCEPT
                               !.status = 200,
                               !.existingSegments = existing,
                               !.gaps = gaps,
                               !.needsFullRetranscription = needsFull]]

\* a request without kalturaId is answered 400
SegmentsStart(r) ==
  /\ Free(r)
  /\ \/ Respond(r, [IdleReq EXCEPT !.kind = "segments",
                                   !.error = "Kaltura ID is required"], 400, NoId)
     \/ \E e \in EntryIds, total \in TotalDurations, current \in CurrentTimes,
           complete \in BOOLEAN :
          req' = [req EXCEPT ![r] = [IdleReq EXCEPT !.kind = "segments",
                                                     !.pc = "a_resolve",
                                                     !.entryId = e,
                                                     !.totalDuration = total,
                                                     !.currentTime = current,
                                                     !.isComplete = complete]]
  /\ started' = started + 1
  /\ UNCHANGED <<transcripts, speaker_mappings, upstream, clock, videos, faults, staleTaken, classifier, panel,
                 lastSubmit>>

\* the catalogue lookup that resolves kalturaId to the entry id
SegmentsResolve(r) ==
  /\ req[r].pc = "a_resolve"
  /\ \/ Respond(r, [req[r] EXCEPT !.error = "Failed to query Kaltura API"], 500, NoId)
     \/ Respond(r, [req[r] EXCEPT !.error = "No entry found"], 404, NoId)
     \/ req' = [req EXCEPT ![r].pc = "a_analyse"]
  /\ UNCHANGED <<transcripts, speaker_mappings, upstream, clock, videos, faults, staleTaken, classifier, panel,
                 started, lastSubmit>>

\* existingParagraphs: seg.content.paragraphs.map(...) of every completed
\* row; the read of a field the stored content does not have is undefined
\* and calling map on it throws
ParagraphsReadable(ts, existingSegments) ==
  \A seg \in existingSegments : "paragraphs" \in DOMAIN ts[seg].content

SegmentsAnalyse(r) ==
  /\ req[r].pc = "a_analyse"
  /\ LET existingSegments == getAllTranscriptsForEntry(transcripts, req[r].entryId)
         targetEnd == IF OrZero(req[r].currentTime) # 0 THEN req[r].currentTime
                      ELSE OrZero(req[r].totalDuration)
     IN
     \/ /\ CanFault
        /\ faults' = faults + 1
        /\ ThrowOuter(r, req[r], "store")
     \/ /\ UNCHANGED faults
        /\ IF ~ParagraphsReadable(transcripts, existingSegments)
           THEN ThrowOuter(r, req[r], "TypeError")
           ELSE IF req[r].isComplete
           THEN IF hasCompleteTranscript(transcripts, existingSegments,
                                         req[r].totalDuration)
                THEN SegmentsRespond(r, existingSegments, <<>>, FALSE)
                ELSE IF Cardinality(existingSegments) > 0
                THEN SegmentsRespond(r, existingSegments, <<>>, TRUE)
                ELSE SegmentsRespond(r, {},
                                     << <<0, OrZero(req[r].totalDuration)>> >>, FALSE)
           ELSE \E segs \in completedSegments(transcripts, existingSegments) :
                  SegmentsRespond(r, existingSegments, liveGaps(segs, targetEnd), FALSE)
  /\ UNCHANGED <<transcripts, speaker_mappings, upstream, clock, videos, staleTaken, classifier, panel, started,
                 lastSubmit>>

\* ------------------------------------------------------- the environment
Tick ==
  /\ UNCHANGED <<started, lastSubmit>>
  /\ clock < MaxTicks
  /\ clock' = clock + 1
  /\ UNCHANGED <<transcripts, speaker_mappings, videos, upstream, req, faults,
                 staleTaken, classifier, panel>>

\* the process serving a request dies between two steps: a trigger inside
\* its locked section, a submit between submitTranscription and
\* saveTranscript; a death anywhere else leaves nothing behind
Crash(r) ==
  /\ UNCHANGED <<started, lastSubmit>>
  /\ InSection(r) \/ req[r].pc = "s_save"
  /\ CanFault
  /\ faults' = faults + 1
  /\ req' = [req EXCEPT ![r] = Ended(req[r], "crashed")]
  /\ UNCHANGED <<transcripts, speaker_mappings, upstream, clock, videos, staleTaken, classifier, panel>>

\* --------------------------------------------------------- specifications
\* a store holding one whole-resource transcript whose attribution failed
Init ==
  /\ transcripts = (1 :> [Row("e1", NullTime, NullTime, "error", BuiltContent, EpochMs)
                            EXCEPT !.error_message = "AttributionFailed"])
  /\ speaker_mappings = <<>>
  /\ upstream = (1 :> [entryId |-> "e1", start_time |-> NullTime, end_time |-> NullTime])
  /\ clock = 0
  /\ videos = <<>>
  /\ req = [r \in ReqIds |-> IdleReq]
  /\ faults = 0
  /\ staleTaken = {}
  /\ classifier = <<>>
  /\ panel = IdlePanel
  /\ started = 0
  /\ lastSubmit = [k \in Keys |-> NoId]

\* a store holding the whole-resource row and one segment row of a resource,
\* as left by earlier submissions and polls
SeedRow(startTime, endTime, status) ==
  Row("e1", startTime, endTime, status,
      IF status = "transcribing" THEN EmptyContent ELSE BuiltContent, EpochMs)

InitPipeline ==
  /\ transcripts = (1 :> SeedRow(NullTime, NullTime, "transcribed"))
                   @@ (2 :> SeedRow(SegStart, SegEnd, "transcribing"))
  /\ speaker_mappings = <<>>
  /\ upstream = (1 :> [entryId |-> "e1", start_time |-> NullTime, end_time |-> NullTime])
                @@ (2 :> [entryId |-> "e1", start_time |-> SegStart, end_time |-> SegEnd])
  /\ clock = 0
  /\ videos = <<>>
  /\ req = [r \in ReqIds |-> IdleReq]
  /\ faults = 0
  /\ staleTaken = {}
  /\ classifier = <<>>
  /\ panel = IdlePanel
  /\ started = 0
  /\ lastSubmit = [k \in Keys |-> NoId]

NextPipeline ==
  \/ \E r \in ReqIds : TriggerStart(r)
  \/ \E r \in ReqIds : TriggerGet(r)
  \/ \E r \in ReqIds : TriggerAcquire(r)
  \/ \E r \in ReqIds : TriggerFetch(r)
  \/ \E r \in ReqIds : TriggerStatus1(r)
  \/ \E r \in ReqIds : TriggerIdentify(r)
  \/ \E r \in ReqIds : TriggerStatus2(r)
  \/ \E r \in ReqIds : TriggerRelease(r)
  \/ \E r \in ReqIds : TriggerReread(r)
  \/ \E r \in ReqIds : TriggerCatch(r)
  \/ \E r \in ReqIds : TriggerCatchRelease(r)
  \/ \E r \in ReqIds : Crash(r)
  \/ Tick

SpecPipeline == InitPipeline /\ [][NextPipeline]_vars

Next ==
  \/ NextPipeline
  \/ \E r \in ReqIds : SubmitStart(r)
  \/ \E r \in ReqIds : SubmitResolve(r)
  \/ \E r \in ReqIds : SubmitLookup(r)
  \/ \E r \in ReqIds : SubmitMapping(r)
  \/ \E r \in ReqIds : SubmitPoll(r)
  \/ \E r \in ReqIds : SubmitDelete(r)
  \/ \E r \in ReqIds : SubmitHls(r)
  \/ \E r \in ReqIds : SubmitUpstream(r)
  \/ \E r \in ReqIds : SubmitSave(r)
  \/ \E r \in ReqIds : PollStart(r)
  \/ \E r \in ReqIds : PollPoll(r)
  \/ \E r \in ReqIds : IdentifyStart(r)
  \/ \E r \in ReqIds : IdentifyEntry(r)
  \/ \E r \in ReqIds : IdentifyFetch(r)
  \/ \E r \in ReqIds : IdentifyRun(r)
  \/ \E r \in ReqIds : IdentifyReread(r)
  \/ \E r \in ReqIds : TagStart(r)
  \/ \E r \in ReqIds : TagLoad(r)
  \/ \E r \in ReqIds : TagSave(r)

Spec == Init /\ [][Next]_vars

\* the two handlers that write the speaker mapping table
NextClassify ==
  \/ \E r \in ReqIds : ClassifyStart(r)
  \/ \E r \in ReqIds : ClassifyCall(r)
  \/ \E r \in ReqIds : ClassifyStore(r)
  \/ \E r \in ReqIds : IdentifyStart(r)
  \/ \E r \in ReqIds : IdentifyEntry(r)
  \/ \E r \in ReqIds : IdentifyFetch(r)
  \/ \E r \in ReqIds : IdentifyRun(r)
  \/ \E r \in ReqIds : IdentifyReread(r)

SpecClassify == Init /\ [][NextClassify]_vars

\* the stores the analysis may read: any of the ranges present as a row that
\* is completed or still transcribing
InitSegments ==
  /\ \E state \in [1..Len(SegmentRanges) -> {"absent", "completed", "transcribing"}] :
       transcripts = [t \in {i \in 1..Len(SegmentRanges) : state[i] # "absent"} |->
                        SeedRow(SegmentRanges[t][1], SegmentRanges[t][2], state[t])]
  /\ speaker_mappings = <<>>
  /\ upstream = <<>>
  /\ clock = 0
  /\ videos = <<>>
  /\ req = [r \in ReqIds |-> IdleReq]
  /\ faults = 0
  /\ staleTaken = {}
  /\ classifier = <<>>
  /\ panel = IdlePanel
  /\ started = 0
  /\ lastSubmit = [k \in Keys |-> NoId]

NextSegments ==
  \/ \E r \in ReqIds : SegmentsStart(r)
  \/ \E r \in ReqIds : SegmentsResolve(r)
  \/ \E r \in ReqIds : SegmentsAnalyse(r)

SpecSegments == InitSegments /\ [][NextSegments]_vars

\* the four request handlers with every external call returning or failing
\* and no process dying; a handler that can take a step takes it eventually
HandlerStep ==
  \E r \in ReqIds :
    \/ TriggerGet(r) \/ TriggerAcquire(r) \/ TriggerFetch(r) \/ TriggerStatus1(r)
    \/ TriggerIdentify(r) \/ TriggerStatus2(r) \/ TriggerRelease(r)
    \/ TriggerReread(r) \/ TriggerCatch(r) \/ TriggerCatchRelease(r)
    \/ SubmitResolve(r) \/ SubmitLookup(r) \/ SubmitMapping(r) \/ SubmitPoll(r)
    \/ SubmitDelete(r) \/ SubmitHls(r) \/ SubmitUpstream(r) \/ SubmitSave(r)
    \/ PollPoll(r)
    \/ SegmentsResolve(r) \/ SegmentsAnalyse(r)

NextResponds ==
  \/ \E r \in ReqIds : started < MaxLiveStarts /\ TriggerStart(r)
  \/ \E r \in ReqIds : started < MaxLiveStarts /\ SubmitStart(r)
  \/ \E r \in ReqIds : started < MaxLiveStarts /\ PollStart(r)
  \/ \E r \in ReqIds : started < MaxLiveStarts /\ SegmentsStart(r)
  \/ HandlerStep
  \/ Tick

SpecResponds == Init /\ [][NextResponds]_vars /\ WF_vars(HandlerStep)

\* the sentences of a completed transcript: one or more sentences, in one
\* paragraph or in consecutive statements, none tagged yet
Texts == {"x", "y"}

SentenceLists ==
  UNION {{[i \in 1..n |-> [statementIdx |-> IF together THEN 0 ELSE i - 1,
                            paraIdx |-> 0,
                            sentIdx |-> IF together THEN i - 1 ELSE 0,
                            text |-> texts[i],
                            un80_topic_keys |-> NO_KEYS]] :
            texts \in [1..n -> Texts], together \in BOOLEAN} : n \in 1..MaxSentences}

InitTagging ==
  /\ \E sentences \in SentenceLists :
       transcripts = (1 :> [SeedRow(NullTime, NullTime, "completed")
                             EXCEPT !.content.sentences = sentences])
  /\ speaker_mappings = <<>>
  /\ upstream = (1 :> [entryId |-> "e1", start_time |-> NullTime, end_time |-> NullTime])
  /\ clock = 0
  /\ videos = <<>>
  /\ req = [r \in ReqIds |-> IdleReq]
  /\ faults = 0
  /\ staleTaken = {}
  /\ classifier = <<>>
  /\ panel = IdlePanel
  /\ started = 0
  /\ lastSubmit = [k \in Keys |-> NoId]

NextTagging ==
  \/ \E r \in ReqIds : TagStart(r)
  \/ \E r \in ReqIds : TagLoad(r)
  \/ \E r \in ReqIds : TagCall(r)
  \/ \E r \in ReqIds : TagSave(r)

SpecTagging == InitTagging /\ [][NextTagging]_vars

\* a page whose panel polls a transcript that a submission has just created,
\* while other clients poll too; every timer fires, the server answers and
\* the answer arrives
InitPanel ==
  /\ transcripts = (1 :> SeedRow(NullTime, NullTime, "transcribing")
                    @@ 2 :> SeedRow(SegStart, SegEnd, "transcribing"))
  /\ speaker_mappings = <<>>
  /\ upstream = (1 :> [entryId |-> "e1", start_time |-> NullTime, end_time |-> NullTime]
                 @@ 2 :> [entryId |-> "e1", start_time |-> SegStart, end_time |-> SegEnd])
  /\ clock = 0
  /\ videos = <<>>
  /\ req = [r \in ReqIds |-> IdleReq]
  /\ faults = 0
  /\ staleTaken = {}
  /\ classifier = <<>>
  /\ panel = IdlePanel
  /\ started = 0
  /\ lastSubmit = [k \in Keys |-> NoId]

PanelStep ==
  \/ PanelWake
  \/ \E r \in ReqIds : PollPoll(r)
  \/ PanelReceive

NextPanel ==
  \/ PanelStart
  \/ PanelStep
  \/ \E r \in ReqIds : (panel.pc = "w_await" => r # panel.slot) /\ PollStart(r)
  \/ Tick

SpecPanel == InitPanel /\ [][NextPanel]_vars /\ WF_vars(PanelStep)

\* a store holding the whole-resource row and a segment row of a resource, in
\* any status, queried by checkOnly requests
InitCheckOnly ==
  /\ \E whole \in Statuses, segment \in Statuses :
       transcripts = (1 :> SeedRow(NullTime, NullTime, whole))
                     @@ (2 :> SeedRow(SegStart, SegEnd, segment))
  /\ speaker_mappings = <<>>
  /\ videos = <<>>
  /\ upstream = (1 :> [entryId |-> "e1", start_time |-> NullTime, end_time |-> NullTime])
                @@ (2 :> [entryId |-> "e1", start_time |-> SegStart, end_time |-> SegEnd])
  /\ clock = 0
  /\ req = [r \in ReqIds |-> IdleReq]
  /\ faults = 0
  /\ staleTaken = {}
  /\ classifier = <<>>
  /\ panel = IdlePanel
  /\ started = 0
  /\ lastSubmit = [k \in Keys |-> NoId]

NextCheckOnly ==
  \/ \E r \in ReqIds : CheckStart(r)
  \/ \E r \in ReqIds : SubmitResolve(r)
  \/ \E r \in ReqIds : SubmitLookup(r)
  \/ \E r \in ReqIds : SubmitMapping(r)
  \/ \E r \in ReqIds : SubmitPoll(r)
  \/ \E r \in ReqIds : SubmitDelete(r)
  \/ Tick

SpecCheckOnly == InitCheckOnly /\ [][NextCheckOnly]_vars

\* one transcript row written by concurrent requests
InitWrites ==
  /\ transcripts = (1 :> SeedRow(NullTime, NullTime, "transcribing"))
  /\ speaker_mappings = <<>>
  /\ videos = <<>>
  /\ upstream = (1 :> [entryId |-> "e1", start_time |-> NullTime, end_time |-> NullTime])
  /\ clock = 0
  /\ req = [r \in ReqIds |-> IdleReq]
  /\ faults = 0
  /\ staleTaken = {}
  /\ classifier = <<>>
  /\ panel = IdlePanel
  /\ started = 0
  /\ lastSubmit = [k \in Keys |-> NoId]

NextWrites ==
  \/ \E r \in ReqIds : WriteSend(r)
  \/ \E r \in ReqIds : WriteApply(r)
  \/ Tick

SpecWrites == InitWrites /\ [][NextWrites]_vars

\* a catalog listing asset a1, its entry id cached or not yet resolved, and a
\* store with the whole-resource transcript of e1 in any status
InitRetrieve ==
  /\ \E status \in Statuses :
       transcripts = (1 :> SeedRow(NullTime, NullTime, status))
  /\ speaker_mappings = <<>>
  /\ \E e \in {""} \cup EntryIds :
       videos = ("a1" :> [entry_id |-> e, updated_at |-> toISOString(EpochMs)])
  /\ upstream = (1 :> [entryId |-> "e1", start_time |-> NullTime, end_time |-> NullTime])
  /\ clock = 0
  /\ req = [r \in ReqIds |-> IdleReq]
  /\ faults = 0
  /\ staleTaken = {}
  /\ classifier = <<>>
  /\ panel = IdlePanel
  /\ started = 0
  /\ lastSubmit = [k \in Keys |-> NoId]

NextRetrieve ==
  \/ \E r \in ReqIds : RetrieveStart(r)
  \/ \E r \in ReqIds : RetrieveVideo(r)
  \/ \E r \in ReqIds : RetrieveResolve(r)
  \/ \E r \in ReqIds : RetrieveCache(r)
  \/ \E r \in ReqIds : RetrieveTranscript(r)
  \/ \E r \in ReqIds : RetrieveMapping(r)
  \/ Tick

SpecRetrieve == InitRetrieve /\ [][NextRetrieve]_vars

\* ------------------------------------------------------------ properties
\* Date.parse of a rendered timestamp
RECURSIVE DateParse(_)
DateParse(text) ==
  IF text = <<>> THEN 0
  ELSE Head(text) * Pow10(Len(text) - 1) + DateParse(Tail(text))

Triggers == {r \in ReqIds : req[r].kind = "trigger"}

\* C1: a trigger that calls tryAcquirePipelineLock while another trigger for
\* the same transcript id is inside its locked section, with no stale lock
\* taken over on that transcript, does not acquire: it answers 409, never
\* runs the attributor and never writes completed.
C1_LockExclusivity ==
  \A r \in Triggers :
    (req[r].contended /\ req[r].transcriptId \notin staleTaken)
      => /\ ~req[r].acquired
         /\ req[r].attributor = "none"
         /\ ~req[r].wroteCompleted
         /\ (req[r].pc = "done" => req[r].status = 409)

\* requests inside their locked section for transcript t that acquired the
\* lock less than the staleness timeout ago
FreshHolders(t) ==
  {r \in ReqIds : /\ InSection(r)
                  /\ req[r].transcriptId = t
                  /\ (clock - req[r].lockedAt) * TickMs < PIPELINE_LOCK_TIMEOUT_MS}

\* C2: every transcript has at most one non-stale lock holder inside its
\* locked section.
C2_OneFreshHolder ==
  \A t \in TranscriptIds : Cardinality(FreshHolders(t)) <= 1

\* C3: no two speaker-attribution runs (identifySpeakers calls) are in
\* progress for the same transcript id at any time, whichever endpoint
\* started them.
C3_OneAttributionRun ==
  \A t \in TranscriptIds :
    Cardinality({r \in ReqIds : /\ Alive(r)
                                /\ req[r].attributor = "running"
                                /\ req[r].transcriptId = t}) <= 1

\* C4: at most one locked attribution section is running per resource
\* (entry id), whatever rows of the resource are triggered.
C4_OneSectionPerEntry ==
  \A e \in EntryIds :
    Cardinality({r \in ReqIds : /\ InSection(r)
                                /\ Exists(transcripts, req[r].transcriptId)
                                /\ transcripts[req[r].transcriptId].entry_id = e}) <= 1

\* C5: a call of tryAcquirePipelineLock on an existing transcript returns
\* true exactly when pipeline_lock is empty or was written more than the
\* 30-minute timeout before the call.
C5_AcquireIffFreeOrStale ==
  [][\A r \in ReqIds :
       (/\ req[r].pc = "t_acquire"
        /\ req'[r].pc \notin {"t_acquire", "crashed"}
        /\ req'[r].error # "store"
        /\ Exists(transcripts, req[r].transcriptId))
       => (req'[r].acquired <=>
             LET lock == transcripts[req[r].transcriptId].pipeline_lock
             IN \/ lock = NULL_TEXT
                \/ DateNow - DateParse(lock) > PIPELINE_LOCK_TIMEOUT_MS)]_vars

\* C5 witness: the lock of a holder that died was taken over by a later caller
C5_Witness ==
  \E r, o \in ReqIds :
    /\ req[o].pc = "crashed" /\ req[o].holding
    /\ InSection(r)
    /\ req[r].transcriptId = req[o].transcriptId
    /\ req[r].transcriptId \in staleTaken

\* C6: a trigger that acquired the lock has released it when it responds.
C6_ReleasedOnEveryExit ==
  \A r \in Triggers :
    (req[r].pc = "done" /\ req[r].acquired) => ~req[r].holding

\* rows of a key whose updated_at no other row of the key shares
Untied(k) ==
  \A t, u \in DOMAIN transcripts :
    (/\ t # u
     /\ <<transcripts[t].entry_id, transcripts[t].start_time, transcripts[t].end_time>> = k
     /\ <<transcripts[u].entry_id, transcripts[u].start_time, transcripts[u].end_time>> = k)
      => transcripts[t].updated_at # transcripts[u].updated_at

\* C7: a submission without force for a key whose previous submission
\* created a row that is still stored and not in error finds that row: its
\* lookup continues with the identifier the previous submission returned
\* and makes no further upstream submission.
C7_IdempotentSubmission ==
  [][\A r \in ReqIds :
       LET k == <<req[r].entryId, req[r].start_time, req[r].end_time>>
           first == lastSubmit[k]
       IN (/\ req[r].pc = "s_lookup"
           /\ req'[r].pc \notin {"s_lookup", "crashed"}
           /\ req'[r].error # "store"
           /\ first # NoId
           /\ Exists(transcripts, first)
           /\ transcripts[first].status # "error"
           /\ Untied(k))
          => /\ req'[r].pc \in {"s_mapping", "s_poll"}
             /\ req'[r].transcriptId = first]_vars

\* the chain of stages: each status and the one that follows it
ForwardStep ==
  {<<"transcribing", "transcribed">>, <<"transcribed", "identifying_speakers">>,
   <<"identifying_speakers", "completed">>}

\* C8: every change of a stored transcript's status is one forward step of
\* transcribing -> transcribed -> identifying_speakers -> completed, or a
\* move to error.
C8_StatusForwardOnly ==
  [][\A t \in DOMAIN transcripts \cap DOMAIN transcripts' :
       transcripts'[t].status # transcripts[t].status
         => \/ <<transcripts[t].status, transcripts'[t].status>> \in ForwardStep
            \/ transcripts'[t].status = "error"]_vars

\* C9: a trigger whose attributor succeeded and that wrote completed never
\* writes error afterwards.
C9_CompletedStays ==
  \A r \in Triggers : req[r].wroteCompleted => ~req[r].wroteError

\* C10: a trigger whose attributor failed has, when it responds, written
\* error with the failure's message, released the lock, and answers 500.
C10_AttributorFailure ==
  \A r \in Triggers :
    (req[r].pc = "done" /\ req[r].attributor = "failed")
      => /\ req[r].wroteError
         /\ ~req[r].holding
         /\ req[r].status = 500
         /\ req[r].error = "AttributionFailed"

\* the columns of a row that no step of the attribution trigger may touch
Kept(row) == <<row.entry_id, row.start_time, row.end_time, row.content>>

\* a step taken by attribution trigger r
TriggerStep(r) == req[r].kind = "trigger" /\ Alive(r) /\ req'[r] # req[r]

\* C11: no step of an attribution trigger, the failure handling included,
\* changes the stored content (statements, raw paragraphs) or the key of any
\* row, nor adds or removes a row: only status, error_message,
\* pipeline_lock and updated_at may differ.
C11_FailureKeepsContent ==
  [][\A r \in ReqIds :
       TriggerStep(r)
         => /\ DOMAIN transcripts' = DOMAIN transcripts
            /\ \A t \in DOMAIN transcripts :
                 Kept(transcripts'[t]) = Kept(transcripts[t])]_vars

\* C11 witness: a trigger whose attributor failed has answered, and the row
\* is in error with the failure's message and its statements still stored
C11_Witness ==
  \E r \in Triggers :
    /\ req[r].pc = "done" /\ req[r].attributor = "failed" /\ req[r].wroteError
    /\ Exists(transcripts, req[r].transcriptId)
    /\ transcripts[req[r].transcriptId].status = "error"
    /\ transcripts[req[r].transcriptId].error_message = "AttributionFailed"
    /\ transcripts[req[r].transcriptId].content = BuiltContent

\* C12: a classification whose completion has no content or cannot be parsed
\* answers 500 and leaves the speaker mapping table exactly as it was.
C12_NoPartialMapping ==
  [][\A r \in ReqIds :
       (/\ req[r].kind = "classify" /\ req[r].pc = "c_call"
        /\ req'[r].pc = "done" /\ req'[r].error \in ParseFailures)
         => /\ req'[r].status = 500
            /\ speaker_mappings' = speaker_mappings]_vars

\* C12 witness: a classification failed to parse while another one's mapping
\* is stored
C12_Witness ==
  \E r \in ReqIds :
    /\ req[r].kind = "classify" /\ req[r].pc = "done"
    /\ req[r].error \in ParseFailures
    /\ \E t \in DOMAIN speaker_mappings : speaker_mappings[t] = MaxParagraphs

\* C13: a trigger refused by tryAcquirePipelineLock answers 409 in that same
\* step, without running the attributor, and leaves every row as it was.
C13_ConflictLeavesRow ==
  [][\A r \in ReqIds :
       (/\ req[r].kind = "trigger" /\ req[r].pc = "t_acquire"
        /\ req'[r].pc \notin {"t_acquire", "crashed"}
        /\ req'[r].error # "store"
        /\ ~req'[r].acquired)
         => /\ req'[r].pc = "done" /\ req'[r].status = 409
            /\ req'[r].attributor = "none"
            /\ transcripts' = transcripts]_vars

\* C13 witness: a trigger was refused while another one holds the lock, a
\* clock reading after that lock was written
C13_Witness ==
  \E r, o \in ReqIds :
    /\ req[r].kind = "trigger" /\ req[r].pc = "done" /\ req[r].status = 409
    /\ InSection(o) /\ req[o].transcriptId = req[r].transcriptId
    /\ clock > req[o].lockedAt
    /\ transcripts[req[o].transcriptId].updated_at = toISOString(EpochMs + req[o].lockedAt * TickMs)

\* the rows the lookup of submit request r may return
Found(r) ==
  getTranscript(transcripts, req[r].entryId, req[r].start_time, req[r].end_time, FALSE)

\* a row that is completed with at least one statement
Populated(t) ==
  transcripts[t].status = "completed" /\ transcripts[t].content.statements > 0

\* a step of r that ended neither in a failed store call nor in a crash
Returned(r) == req'[r] # req[r] /\ req'[r].pc # "crashed" /\ req'[r].error # "store"

\* C14: a submit without force whose lookup finds a completed row with
\* statements takes the cached branch with that row's id, and answers 200
\* with that id; neither step changes a row or a lock, submits upstream or
\* polls.
C14_CacheHit ==
  [][\A r \in ReqIds :
       /\ (/\ req[r].pc = "s_lookup" /\ Returned(r)
            /\ Found(r) # {} /\ \A t \in Found(r) : Populated(t))
           => /\ req'[r].pc = "s_mapping"
              /\ req'[r].transcriptId \in Found(r)
              /\ UNCHANGED <<transcripts, upstream, speaker_mappings>>
       /\ (req[r].pc = "s_mapping" /\ Returned(r))
           => /\ req'[r].pc = "done" /\ req'[r].status = 200
              /\ req'[r].body = req[r].transcriptId
              /\ UNCHANGED <<transcripts, upstream, speaker_mappings>>]_vars

\* C14 witness: a submit answered with the id of a completed, populated row
\* and no upstream submission was ever made
C14_Witness ==
  \E r \in ReqIds :
    /\ req[r].kind = "submit" /\ req[r].pc = "done" /\ req[r].status = 200
    /\ Exists(transcripts, req[r].body) /\ Populated(req[r].body)
    /\ transcripts[req[r].body].pipeline_lock = NULL_TEXT
    /\ DOMAIN upstream = {1}

\* the key a submit request names
KeyOf(r) == <<req[r].entryId, req[r].start_time, req[r].end_time>>

\* the stored rows of key k that are not in error
NonError(k) ==
  {t \in DOMAIN transcripts :
     /\ <<transcripts[t].entry_id, transcripts[t].start_time, transcripts[t].end_time>> = k
     /\ transcripts[t].status # "error"}

\* C15: a submit without force for a key that has a row not in error, none
\* of them completed with statements, does not go on to submit: its lookup
\* continues with the poll of such a row's transcript id.
C15_ResumeInFlight ==
  [][\A r \in ReqIds :
       (/\ req[r].pc = "s_lookup" /\ Returned(r) /\ ~req[r].checkOnly
        /\ NonError(KeyOf(r)) # {}
        /\ \A t \in NonError(KeyOf(r)) : ~Populated(t)
        /\ Untied(KeyOf(r)))
         => /\ req'[r].pc = "s_poll"
            /\ req'[r].transcriptId \in NonError(KeyOf(r))]_vars

\* the stored rows of a resource
RowsOf(ts, entryId) == {t \in DOMAIN ts : ts[t].entry_id = entryId}

\* C16: a submit that finds the row of its key in error goes on to submit new
\* audio, and a forced submit that succeeds leaves the row it created, in
\* status transcribing, as the only row of the resource.
C16_RetryAndForce ==
  [][\A r \in ReqIds :
       /\ (/\ req[r].pc = "s_lookup" /\ Returned(r) /\ ~req[r].checkOnly
           /\ Found(r) # {}
           /\ \A t \in Found(r) : transcripts[t].status = "error")
            => req'[r].pc \in {"s_hls", "s_submit"}
       /\ (/\ req[r].pc = "s_save" /\ req[r].force
           /\ req'[r].pc = "done" /\ req'[r].status = 200)
            => /\ RowsOf(transcripts', req[r].entryId) = {req[r].transcriptId}
               /\ transcripts'[req[r].transcriptId].status = "transcribing"]_vars

\* C17: a submit that finds no row of its key goes on to submit and touches
\* neither store; the upstream step issues exactly one new transcript id for
\* the requested range, and it is the only step that submits; the save step
\* adds exactly one row, under that id, with the requested range (null for
\* the whole resource), status transcribing and empty content, changes no
\* other row, and answers 200 with the id.
C17_FirstSubmission ==
  [][/\ \A r \in ReqIds :
          /\ (/\ req[r].pc = "s_lookup" /\ Returned(r) /\ ~req[r].checkOnly
              /\ Found(r) = {})
               => /\ req'[r].pc \in {"s_hls", "s_submit"}
                  /\ UNCHANGED <<transcripts, upstream>>
          /\ (req[r].pc = "s_submit" /\ req'[r].pc = "s_save")
               => /\ req'[r].transcriptId \notin DOMAIN upstream
                  /\ DOMAIN upstream' = DOMAIN upstream \cup {req'[r].transcriptId}
                  /\ upstream'[req'[r].transcriptId] =
                       [entryId |-> req[r].entryId, start_time |-> req[r].start_time,
                        end_time |-> req[r].end_time]
                  /\ \A u \in DOMAIN upstream : upstream'[u] = upstream[u]
          /\ (req[r].pc = "s_save" /\ Returned(r))
               => LET id == req[r].transcriptId IN
                  /\ id \notin DOMAIN transcripts
                  /\ DOMAIN transcripts' = DOMAIN transcripts \cup {id}
                  /\ \A u \in DOMAIN transcripts : transcripts'[u] = transcripts[u]
                  /\ transcripts'[id] =
                       Row(req[r].entryId, req[r].start_time, req[r].end_time,
                           "transcribing", EmptyContent, DateNow)
                  /\ req'[r].pc = "done" /\ req'[r].status = 200
                  /\ req'[r].body = id
                  /\ upstream' = upstream
     /\ upstream' # upstream
          => \E r \in ReqIds : req[r].pc = "s_submit" /\ req'[r].pc = "s_save"]_vars

\* a segment request, whose key had no row, has created the only row of its
\* key and answered with its id
C17_Witness ==
  \E r \in ReqIds, t \in DOMAIN transcripts :
    /\ req[r].kind = "submit" /\ req[r].pc = "done" /\ req[r].status = 200
    /\ req[r].body = t
    /\ transcripts[t].start_time = SegStart /\ transcripts[t].end_time = SegEnd
    /\ transcripts[t].status = "transcribing"
    /\ NonError(<<transcripts[t].entry_id, SegStart, SegEnd>>) = {t}
    /\ t \in DOMAIN upstream /\ upstream[t].start_time = SegStart

\* C18: in every reachable state a resource has at most one whole-resource
\* row that is not in error.
C18_OneWholeRow ==
  \A e \in EntryIds : Cardinality(NonError(<<e, NullTime, NullTime>>)) <= 1

\* C19: a crash between two steps loses no completed step: when the process
\* of a submit dies, the transcript id it obtained upstream is stored as a
\* row; when the process of a trigger dies, the status it wrote last is the
\* stored status of its row.
C19_CrashLosesNothing ==
  [][\A r \in ReqIds :
       (req[r].pc # "crashed" /\ req'[r].pc = "crashed")
         => /\ req[r].kind = "submit" => Exists(transcripts', req[r].transcriptId)
            /\ (req[r].kind = "trigger" /\ req[r].wroteCompleted)
                 => transcripts'[req[r].transcriptId].status = "completed"]_vars

\* the stored row t spans the interval from 0 to total; a null bound is the
\* resource's own start or end
Covers(t, total) ==
  /\ (IF transcripts[t].start_time = NullTime THEN 0 ELSE transcripts[t].start_time) <= 0
  /\ transcripts[t].end_time = NullTime \/ transcripts[t].end_time >= total

\* C20: for a finished resource the analysis answers needsFullRetranscription
\* false with empty gaps exactly when one completed segment covers
\* [0, totalDuration], and needsFullRetranscription true for every other
\* non-empty set of completed segments; totalDuration is the number passed, 0
\* when it is absent or 0.
C20_FullRetranscription ==
  [][\A r \in ReqIds :
       (req[r].pc = "a_analyse" /\ req[r].isComplete /\ Returned(r))
         => LET segs == {t \in DOMAIN transcripts :
                           /\ transcripts[t].entry_id = req[r].entryId
                           /\ transcripts[t].status = "completed"}
                total == IF req[r].totalDuration = NullTime THEN 0
                         ELSE req[r].totalDuration
                covered == \E t \in segs : Covers(t, total)
            IN /\ req'[r].status = 200
               /\ (~req'[r].needsFullRetranscription /\ req'[r].gaps = <<>>) <=> covered
               /\ (segs # {} /\ ~covered) => req'[r].needsFullRetranscription]_vars

\* the unit cells [k, k+1) of the interval from lo to hi
Cells(lo, hi) == {k \in lo..(hi - 1) : TRUE}

\* the cells of [0, targetEnd) a completed row t covers; a null bound is the
\* resource's own start or end
CoveredBy(t, targetEnd) ==
  Cells(IF transcripts[t].start_time = NullTime THEN 0 ELSE transcripts[t].start_time,
        IF transcripts[t].end_time = NullTime THEN targetEnd ELSE transcripts[t].end_time)
    \cap Cells(0, targetEnd)

\* C21: for a resource in progress the gaps of the analysis are exactly the
\* complement, within [0, targetEnd], of the union of the completed
\* segments' intervals.
C21_GapsAreComplement ==
  [][\A r \in ReqIds :
       (req[r].pc = "a_analyse" /\ ~req[r].isComplete /\ Returned(r))
         => LET segs == {t \in DOMAIN transcripts :
                           /\ transcripts[t].entry_id = req[r].entryId
                           /\ transcripts[t].status = "completed"}
                targetEnd == IF req[r].currentTime \notin {NullTime, 0}
                             THEN req[r].currentTime
                             ELSE IF req[r].totalDuration = NullTime THEN 0
                             ELSE req[r].totalDuration
                gaps == req'[r].gaps
            IN UNION {Cells(gaps[i][1], gaps[i][2]) : i \in DOMAIN gaps}
                 = Cells(0, targetEnd) \ UNION {CoveredBy(t, targetEnd) : t \in segs}]_vars

\* tag passes whose tasks have all settled: tagSentencesWithUN80Topics returns
Tagged == {r \in ReqIds : req[r].kind = "tag" /\ req[r].pc = "g_save"
                           /\ DOMAIN req[r].tasks = {}}

\* what the call for sentence i of the stored row did
Answer(r, i) ==
  classifier[Prompt(transcripts[req[r].transcriptId].content.sentences, i)]

\* an answer that names no topic: nothing but blanks, or the word none
SaysNone(outcome) ==
  \A i \in DOMAIN outcome.text : outcome.text[i] = " "
    \/ (outcome.text[i] \in {"none", "None"}
         /\ \A j \in DOMAIN outcome.text \ {i} : outcome.text[j] = " ")

\* the content a pass returns has the sentences of the row it read, in
\* their positions and with their texts; every sentence has a tag list, empty
\* where the call failed or answered none, and the answered tags elsewhere
ReturnsAll(r) ==
  LET read == transcripts[req[r].transcriptId].content.sentences
      returned == req[r].content.sentences
  IN /\ Len(returned) = Len(read)
     /\ \A i \in DOMAIN read :
          /\ returned[i].statementIdx = read[i].statementIdx
          /\ returned[i].paraIdx = read[i].paraIdx
          /\ returned[i].sentIdx = read[i].sentIdx
          /\ returned[i].text = read[i].text
          /\ returned[i].un80_topic_keys # NO_KEYS
          /\ (~Answer(r, i).ok \/ SaysNone(Answer(r, i)))
               => returned[i].un80_topic_keys = <<>>
          /\ (Answer(r, i).ok /\ ~SaysNone(Answer(r, i)))
               => /\ returned[i].un80_topic_keys # <<>>
                  /\ returned[i].un80_topic_keys = un80_topic_keys(Answer(r, i))

\* C22: a tagging pass never aborts: a call that settles, failed or not,
\* leaves the pass running with one task less, and once all have settled the
\* pass returns every sentence in its position with a tag list, empty where
\* the call failed or answered none and the answered tags elsewhere.
C22_DegradedTagging ==
  [][/\ \A r \in ReqIds :
          (/\ req[r].kind = "tag" /\ req[r].pc = "g_save"
           /\ DOMAIN req[r].tasks # {} /\ req'[r] # req[r])
            => /\ req'[r].pc = "g_save"
               /\ Cardinality(DOMAIN req'[r].tasks)
                    = Cardinality(DOMAIN req[r].tasks) - 1
     /\ \A r \in Tagged : ReturnsAll(r)]_vars

\* a pass over two sentences has returned: the first call failed, the second
\* answered two slugs
C22_Witness ==
  \E r \in Tagged :
    /\ Len(req[r].content.sentences) = 2
    /\ ~Answer(r, 1).ok
    /\ req[r].content.sentences[1].un80_topic_keys = <<>>
    /\ Answer(r, 2).ok
    /\ req[r].content.sentences[2].un80_topic_keys = << <<"74a">>, <<"77b">> >>

\* C23: with the classifier deterministic, a pass over a row that an earlier
\* pass tagged returns on every sentence the tag list the row already has.
C23_RetaggingIdempotent ==
  \A r \in Tagged :
    LET read == transcripts[req[r].transcriptId].content.sentences IN
    \A i \in DOMAIN read :
      read[i].un80_topic_keys # NO_KEYS
        => req[r].content.sentences[i].un80_topic_keys = read[i].un80_topic_keys

\* a second pass, started after the first had saved its tags, has returned
\* and one of its sentences carries tags
C23_Witness ==
  \E r \in Tagged :
    /\ started = 2
    /\ \A o \in ReqIds \ {r} : req[o].kind = "idle"
    /\ transcripts[req[r].transcriptId].content.un80_topics
    /\ \E i \in DOMAIN req[r].content.sentences :
         /\ transcripts[req[r].transcriptId].content.sentences[i].un80_topic_keys
              = << <<"74a">>, <<"77b">> >>
         /\ req[r].content.sentences[i].un80_topic_keys = << <<"74a">>, <<"77b">> >>

\* C24: whichever task of a pass settles, it changes the tag list of its own
\* sentence only, and what it stores is fixed by the classifier and by the
\* texts of the sentences; so the tags a pass ends with are the same for
\* every order in which its calls complete.
C24_OrderIrrelevant ==
  [][\A r \in ReqIds :
       (/\ req[r].kind = "tag" /\ req[r].pc = "g_save"
        /\ DOMAIN req[r].tasks # {} /\ req'[r] # req[r])
         => LET sentences == req[r].content.sentences IN
            \E j \in DOMAIN req[r].tasks :
              /\ DOMAIN req'[r].tasks = DOMAIN req[r].tasks \ {j}
              /\ req'[r].content.sentences =
                   [sentences EXCEPT ![j].un80_topic_keys =
                      un80_topic_keys(classifier'[Prompt(sentences, j)])]]_vars

\* the call of the second sentence has settled with tags before the call of
\* the first
C24_Witness ==
  \E r \in ReqIds :
    /\ req[r].kind = "tag" /\ req[r].pc = "g_save"
    /\ DOMAIN req[r].tasks = {1}
    /\ Len(req[r].content.sentences) = 2
    /\ req[r].content.sentences[1].un80_topic_keys = NO_KEYS
    /\ req[r].content.sentences[2].un80_topic_keys = << <<"zz">> >>

\* the keys of the topic dictionary embedded in a content
DictionaryKeys(content) == IF content.un80_topics THEN TopicSlugs ELSE {}

\* C25: in every stored row that a tagging pass saved, each topic key on a
\* sentence is a key of the topic dictionary embedded in the same content.
C25_KeysInTaxonomy ==
  \A t \in DOMAIN transcripts :
    LET content == transcripts[t].content IN
    content.un80_topics
      => \A i \in DOMAIN content.sentences :
           content.sentences[i].un80_topic_keys # NO_KEYS
             => \A k \in DOMAIN content.sentences[i].un80_topic_keys :
                  content.sentences[i].un80_topic_keys[k] \in DictionaryKeys(content)

\* content with its topic annotations and topic dictionary left out
Untagged(content) ==
  [content EXCEPT !.un80_topics = FALSE,
                  !.sentences = [i \in DOMAIN content.sentences |->
                                   [content.sentences[i] EXCEPT
                                      !.un80_topic_keys = NO_KEYS]]]

\* C26: the write-back of a tagging pass changes nothing but topic
\* annotations and the topic dictionary of the row it read: the row exists
\* and keeps its status, its lock and the rest of its content as they are in
\* the store at that moment, no other row changes, and the speaker mappings
\* stay.
C26_TaggingOnlyTags ==
  [][\A r \in ReqIds :
       (/\ req[r].kind = "tag" /\ req[r].pc = "g_save"
        /\ req'[r].pc = "done" /\ req'[r].error = NoError)
         => LET t == req[r].transcriptId IN
            /\ speaker_mappings' = speaker_mappings
            /\ DOMAIN transcripts' = DOMAIN transcripts
            /\ \A u \in DOMAIN transcripts \ {t} : transcripts'[u] = transcripts[u]
            /\ t \in DOMAIN transcripts
            /\ transcripts'[t].status = transcripts[t].status
            /\ transcripts'[t].pipeline_lock = transcripts[t].pipeline_lock
            /\ Untagged(transcripts'[t].content) = Untagged(transcripts[t].content)]_vars

\* a response: a success body, or a body with an error field and a status
\* that is not 2xx
WellFormed(rec) ==
  \/ rec.status = 200 /\ rec.error = NoError
  \/ rec.status \in {400, 404, 409, 500} /\ rec.error # NoError

Completed(p) == p.statements > 0 /\ p.error = NoError
Surfaced(p) ==
  /\ p.statements = 0 /\ p.error # NoError
  /\ p.error = transcripts[p.transcriptId].error_message
TimedOut(p) ==
  p.statements = 0 /\ p.error = "Transcription timeout" /\ p.pollCount = maxPolls

\* C28: the poll loop sends at most maxPolls polls, each after one sleep of
\* PollIntervalMs; it always ends, and when it has ended loading is cleared
\* and exactly one of three things is true: statements are shown and no
\* error, the upstream error text is shown, or the timeout error is shown
\* after the whole budget was used.
C28_BoundedPollLoop ==
  /\ [](/\ panel.pollCount <= maxPolls
        /\ panel.slept = panel.pollCount * PollIntervalMs)
  /\ [](panel.pc = "done" =>
          /\ ~panel.loading
          /\ Cardinality({o \in {"completed", "surfaced", "timeout"} :
                            \/ o = "completed" /\ Completed(panel)
                            \/ o = "surfaced" /\ Surfaced(panel)
                            \/ o = "timeout" /\ TimedOut(panel)}) = 1)
  /\ (panel.pc \in {"w_sleep", "w_await"}) ~> (panel.pc = "done")
\* C29: a poll answered with a non-2xx status does not end the loop: while
\* attempts remain the panel sleeps and polls again, with no error shown;
\* once the attempts are used up the loop ends with the timeout error.
C29_TransientPollFailure ==
  [][(/\ panel.pc = "w_await" /\ panel'.pc # "w_await"
      /\ req[panel.slot].status # 200)
       => IF panel.pollCount < maxPolls
          THEN panel'.pc = "w_sleep" /\ panel'.error = NoError
          ELSE panel'.pc = "done" /\ panel'.error = "Transcription timeout"]_vars
\* the (resource, time range) key of a stored row
RowKey(ts, t) == <<ts[t].entry_id, ts[t].start_time, ts[t].end_time>>

\* the key an operation was requested for: the key a submit names, the
\* whole-resource key of the resource a tagging pass names, the key of the
\* row a poll or a trigger names
OpKeys(r) ==
  IF req[r].kind = "submit" THEN {KeyOf(r)}
  ELSE IF req[r].kind = "tag" THEN {<<req[r].entryId, NullTime, NullTime>>}
  ELSE IF Exists(transcripts, req[r].transcriptId)
  THEN {RowKey(transcripts, req[r].transcriptId)}
  ELSE {}

\* C30: a step of a submit (forced or not), poll, trigger or tagging pass
\* leaves every row of another key as it was: none is created, changed or
\* deleted.
C30_KeysIndependent ==
  [][\A r \in ReqIds :
       (Alive(r) /\ req'[r] # req[r])
         => \A t \in DOMAIN transcripts \cup DOMAIN transcripts' :
              LET ts == IF t \in DOMAIN transcripts THEN transcripts ELSE transcripts'
              IN RowKey(ts, t) \notin OpKeys(r)
                   => /\ t \in DOMAIN transcripts /\ t \in DOMAIN transcripts'
                      /\ transcripts'[t] = transcripts[t]]_vars
\* C31: no step of a retrieval request changes the transcripts, the speaker
\* mappings or the video catalog, whatever the request ends in.
C31_RetrieveReadOnly ==
  [][\A r \in ReqIds :
       (req[r].kind = "retrieve" /\ Alive(r) /\ req'[r] # req[r])
         => UNCHANGED <<transcripts, speaker_mappings, videos>>]_vars
\* C32: no step makes the updated_at of a row that stays in the table
\* earlier than it was.
C32_UpdatedAtMonotonic ==
  [][\A t \in DOMAIN transcripts \cap DOMAIN transcripts' :
       ~TextLess(transcripts'[t].updated_at, transcripts[t].updated_at)]_vars
\* C33: no step of a submit request with checkOnly set, forced or not,
\* submits upstream or creates, changes or deletes a transcript row.
C33_CheckOnlyPure ==
  [][\A r \in ReqIds :
       (req[r].kind = "submit" /\ req[r].checkOnly /\ req'[r] # req[r])
         => UNCHANGED <<transcripts, upstream>>]_vars
\* C34: the panel shows the timeout error only if no poll of the loop
\* delivered statements; a completion received on poll number maxPolls
\* ends with the statements and no error.
C34_NoTimeoutAfterCompletion ==
  /\ panel.error = "Transcription timeout" => panel.statements = 0
  /\ (panel.pc = "done" /\ panel.statements > 0) => panel.error = NoError
\* the end of the analysed range: currentTime || totalDuration || 0 for a
\* resource in progress, totalDuration || 0 for a finished one
TargetEnd(rec) ==
  IF ~rec.isComplete /\ rec.currentTime \notin {NullTime, 0} THEN rec.currentTime
  ELSE IF rec.totalDuration = NullTime THEN 0
  ELSE rec.totalDuration

\* C35: in every answer of the gap analysis each gap has start < end, the
\* gaps are sorted by start and pairwise disjoint, each lies within
\* [0, target end], and none overlaps a completed segment.
C35_GapsWellFormed ==
  [][\A r \in ReqIds :
       (req[r].pc = "a_analyse" /\ Returned(r) /\ req'[r].status = 200)
         => LET segs == {t \in DOMAIN transcripts :
                           /\ transcripts[t].entry_id = req[r].entryId
                           /\ transcripts[t].status = "completed"}
                targetEnd == TargetEnd(req[r])
                gaps == req'[r].gaps
            IN /\ \A i \in DOMAIN gaps :
                    /\ gaps[i][1] < gaps[i][2]
                    /\ 0 <= gaps[i][1] /\ gaps[i][2] <= targetEnd
                    /\ \A t \in segs :
                         Cells(gaps[i][1], gaps[i][2]) \cap CoveredBy(t, targetEnd) = {}
               /\ \A i, j \in DOMAIN gaps : i < j => gaps[i][2] <= gaps[j][1]]_vars
\* C36: the gap analysis of a resource whose completed rows hold content in
\* the stored format (statements, topics, raw_paragraphs) answers 200; the
\* only error answers are those of a failed store call.
C36_StoredFormatAnalysed ==
  [][\A r \in ReqIds :
       (req[r].pc = "a_analyse" /\ Returned(r)) => req'[r].status = 200]_vars
\* C37: when a trigger writes status completed the speaker mapping of its
\* transcript id is already stored, and it stays stored: a trigger that has
\* written completed always has a mapping in the table.
C37_MappingBeforeCompleted ==
  /\ [][\A r \in ReqIds :
          (req[r].pc = "t_status2" /\ req'[r].wroteCompleted)
            => req[r].transcriptId \in DOMAIN speaker_mappings]_vars
  /\ [](\A r \in ReqIds :
          req[r].wroteCompleted => req[r].transcriptId \in DOMAIN speaker_mappings)

\* C37 witness: a trigger has answered after writing completed, the row shows
\* completed and the mapping of its transcript is stored
C37_Witness ==
  \E r \in ReqIds :
    /\ req[r].kind = "trigger" /\ req[r].pc = "done" /\ req[r].wroteCompleted
    /\ Exists(transcripts, req[r].transcriptId)
    /\ transcripts[req[r].transcriptId].status = "completed"
    /\ req[r].transcriptId \in DOMAIN speaker_mappings
\* C38: in every reachable state a transcript whose status is
\* identifying_speakers has a non-empty pipeline_lock.
C38_IdentifyingImpliesLocked ==
  \A t \in DOMAIN transcripts :
    transcripts[t].status = "identifying_speakers"
      => transcripts[t].pipeline_lock # NULL_TEXT
====
